---- MODULE Spec2Model ----
(***************************************************************************)
(* Shared-memory frame transport of goshadertoy: the FFmpeg muxer          *)
(* (src/shmframe/shm_muxer.c, the producer) and demuxer                    *)
(* (src/shmframe/shmframe.c, the consumer).  Two processes share, per      *)
(* channel, one POSIX shared-memory segment of NUM_BUFFERS slots and two   *)
(* named counting semaphores, and one pipe that carries the SHMHeader and  *)
(* then the FrameHeader records.                                           *)
(***************************************************************************)
EXTENDS Integers, Sequences, FiniteSets, TLC

(* ------------------------------------------------------------------ *)
(* Program constants                                                   *)
(* ------------------------------------------------------------------ *)
NUM_BUFFERS == 3
ControlBlockSize == 16
Video == 0
Audio == 1
EOS == 2
\* Width of FrameHeader.offset in 16-bit limbs.  The struct that declares the
\* field is not among the sources; the producer assigns it from a uint64_t.
OffsetLimbs == 4
Ch == {Video, Audio}

(* ------------------------------------------------------------------ *)
(* Bounds of the model                                                 *)
(* ------------------------------------------------------------------ *)
MaxUnits == 4
VideoFrameSize == 2
SamplesPerBuffer == 2
\* failed calls (an interrupted sem_wait, a failed allocation) in a session
MaxErrors == 1
\* sessions run one after another under the same process id
MaxSessions == 2

(* ------------------------------------------------------------------ *)
(* Fixed-width unsigned arithmetic on little-endian 16-bit limbs       *)
(* ------------------------------------------------------------------ *)
Limb == 2^16

RECURSIVE ToLimbs(_, _)
ToLimbs(n, k) == IF k = 0 THEN <<>> ELSE <<n % Limb>> \o ToLimbs(n \div Limb, k - 1)

U64(n) == ToLimbs(n, OffsetLimbs)

RECURSIVE AddLimbs(_, _, _, _)
AddLimbs(a, b, i, carry) ==
    IF i > Len(a) THEN <<>>
    ELSE LET s == a[i] + b[i] + carry
         IN  <<s % Limb>> \o AddLimbs(a, b, i + 1, s \div Limb)

\* a + b in the width of a; the carry out of the top limb is lost
Add64(a, b) == AddLimbs(a, b, 1, 0)

RECURSIVE GtLimbs(_, _, _)
GtLimbs(a, b, i) ==
    IF i = 0 THEN FALSE
    ELSE IF a[i] # b[i] THEN a[i] > b[i]
    ELSE GtLimbs(a, b, i - 1)

Gt64(a, b) == GtLimbs(a, b, Len(a))

Max64 == [i \in 1..OffsetLimbs |-> Limb - 1]

\* a limb vector that is a non-negative int
IsSmall(a) == a[2] < 2^15 /\ \A i \in 3..Len(a) : a[i] = 0

ToNat(a) == a[1] + a[2] * Limb

(* ------------------------------------------------------------------ *)
(* State                                                               *)
(* ------------------------------------------------------------------ *)
VARIABLES
    \* the muxer's option and the streams FFmpeg mapped to it
    samples_per_buffer, nb_channels, streams,
    \* the number of the session run under this process id
    session,
    \* upstream pipeline: the units it still hands to the muxer
    upstream, nUnits,
    \* kernel objects: existing names, semaphore values, segment contents
    names, empty_sem, full_sem, shm, shm_size, eof,
    \* the metadata channel (pipe): records in flight
    pipe,
    \* SHMMuxerContext and the muxer's position
    p_pc, p_ctx, pkt_in, write_index, frame_buffer_size,
    internal_buffer_audio, internal_buffer_size_audio,
    internal_buffer_occupancy_audio, pts_counter_audio, p_ret, p_res,
    \* SHMDemuxerContext and the demuxer's position
    c_pc, frame_header, c_held, shm_buffer_size, c_streams, c_ret, c_res,
    \* observation logs
    sent, published, audio_in, delivered, posted, freed, nTaken, c_errors, p_errors,
    last_read, oob, last_unit, residual, p_oob,
    \* the teardown calls made on handles the setup never set
    stray

vars == <<samples_per_buffer, nb_channels, streams, session, upstream, nUnits,
          names, empty_sem, full_sem, shm, shm_size, eof, pipe,
          p_pc, p_ctx, pkt_in, write_index, frame_buffer_size,
          internal_buffer_audio, internal_buffer_size_audio,
          internal_buffer_occupancy_audio, pts_counter_audio, p_ret, p_res,
          c_pc, frame_header, c_held, shm_buffer_size, c_streams, c_ret, c_res,
          sent, published, audio_in, delivered, posted, freed, nTaken, c_errors,
          p_errors, last_read, oob, last_unit, residual, p_oob, stray>>

kernelVars == <<names, empty_sem, full_sem, shm, shm_size, eof>>
muxVars == <<p_pc, p_ctx, pkt_in, write_index, frame_buffer_size,
             internal_buffer_audio, internal_buffer_size_audio,
             internal_buffer_occupancy_audio, pts_counter_audio, p_ret, p_res>>
demuxVars == <<c_pc, frame_header, c_held, shm_buffer_size, c_streams, c_ret, c_res>>
cfgVars == <<samples_per_buffer, nb_channels, streams, session>>
cLogVars == <<delivered, freed, nTaken, c_errors, last_read, oob>>
pLogVars == <<sent, published, audio_in, posted, p_errors, last_unit, residual, p_oob>>

(* ------------------------------------------------------------------ *)
(* Memory helpers                                                      *)
(* ------------------------------------------------------------------ *)
\* sizeof(SHMControlBlock) + frame_buffer_size * NUM_BUFFERS
SegmentSize(fbs) == ControlBlockSize + fbs * NUM_BUFFERS

\* every frame goes to the first slot
SlotOffsetFirst(i, fbs) == ControlBlockSize

\* frame_buffers[i] - buffer
SlotOffset(i, fbs) == ControlBlockSize + i * fbs

\* (write_index + 1) % NUM_BUFFERS
NextIndex(i) == (i + 1) % NUM_BUFFERS

\* a copy that stops one byte short
MemWriteShort(mem, off, data) ==
    [a \in DOMAIN mem |->
        IF a >= off /\ a < off + Len(data) - 1 THEN data[a - off + 1] ELSE mem[a]]

\* memcpy(mem + off, data, Len(data)) into a byte array
MemWrite(mem, off, data) ==
    [a \in DOMAIN mem |->
        IF a >= off /\ a < off + Len(data) THEN data[a - off + 1] ELSE mem[a]]

\* the n bytes of mem from off on
MemRead(mem, off, n) == [j \in 1..n |-> mem[off + j - 1]]

\* a fresh segment after ftruncate: the slots, zero-filled
ZeroSegment(fbs) ==
    [a \in ControlBlockSize..(SegmentSize(fbs) - 1) |-> 0]

\* a byte av_malloc left unwritten: no value of a byte, so that a read of it shows
Uninit == 2^8

\* what a read outside a mapping may return
Garbage == {0, 255}

\* the bytes of input unit n: every byte non-zero and tagged by its unit
Data(n, size) == [j \in 1..size |-> 1 + ((n * 37 + j) % 200)]

NoPacket == [kind |-> EOS, size |-> 0, pts |-> 0, data |-> <<>>]

\* the demuxer's frame_header between calls
NoHeader == [cmdtype |-> EOS, size |-> 0, pts |-> 0, offset |-> <<0, 0, 0, 0>>]

(* ------------------------------------------------------------------ *)
(* The upstream pipeline: the AVPackets handed to shm_write_packet     *)
(* ------------------------------------------------------------------ *)
\* pkt->size of video unit n: every size up to a slot occurs, fixed by the unit
VideoSizes(n) == {1 + (n % VideoFrameSize)}
\* pkt->pts of unit n: neither increasing nor a multiple of anything the muxer counts
PtsOf(n) == 100 + ((n * 7) % 5)
AudioFrameBytes == samples_per_buffer * nb_channels
\* less than a frame, and more than a frame: together they fill, split and overflow
AudioSizes == {AudioFrameBytes - 1, AudioFrameBytes + 2}

VideoUnits(n) ==
    {[kind |-> Video, size |-> s, pts |-> p, data |-> Data(n, s)] :
        s \in VideoSizes(n), p \in {PtsOf(n)}}

AudioUnits(n) ==
    {[kind |-> Audio, size |-> s, pts |-> p, data |-> Data(n, s)] :
        s \in AudioSizes, p \in {PtsOf(n)}}

\* the units the upstream may hand over next
NextUnits ==
    IF upstream.scripted
    THEN (IF upstream.rest = <<>> THEN {} ELSE {Head(upstream.rest)})
    ELSE IF nUnits < MaxUnits
         THEN {u \in VideoUnits(nUnits) \cup AudioUnits(nUnits) : u.kind \in streams}
         ELSE {}

UpstreamAfterCall ==
    IF upstream.scripted
    THEN [upstream EXCEPT !.rest = Tail(upstream.rest)]
    ELSE upstream

(* ------------------------------------------------------------------ *)
(* Initial state: both contexts zeroed (priv_data), nothing created    *)
(* ------------------------------------------------------------------ *)
ZeroCtx ==
    /\ nUnits = 0
    /\ names = {}
    /\ empty_sem = [c \in Ch |-> 0]
    /\ full_sem = [c \in Ch |-> 0]
    /\ shm = [c \in Ch |-> <<>>]
    /\ shm_size = [c \in Ch |-> 0]
    /\ eof = [c \in Ch |-> 0]
    /\ pipe = <<>>
    /\ p_pc = "header"
    /\ p_ctx = "packet"
    /\ pkt_in = NoPacket
    /\ write_index = [c \in Ch |-> 0]
    /\ frame_buffer_size = [c \in Ch |-> 0]
    /\ internal_buffer_audio = <<>>
    /\ internal_buffer_size_audio = 0
    /\ internal_buffer_occupancy_audio = 0
    /\ pts_counter_audio = 0
    /\ p_ret = 0
    /\ p_res = {}
    /\ c_pc = "header"
    /\ frame_header = NoHeader
    /\ c_held = EOS
    /\ shm_buffer_size = [c \in Ch |-> 0]
    /\ c_streams = {}
    /\ c_ret = 0
    /\ c_res = {}
    /\ sent = <<>>
    /\ published = <<>>
    /\ audio_in = <<>>
    /\ delivered = <<>>
    /\ posted = <<>>
    /\ freed = [c \in Ch |-> {}]
    /\ nTaken = [c \in Ch |-> 0]
    /\ c_errors = 0
    /\ p_errors = 0
    /\ last_read = <<>>
    /\ oob = FALSE
    /\ last_unit = NoPacket
    /\ residual = -1
    /\ p_oob = FALSE
    /\ stray = {}

Init ==
    /\ samples_per_buffer = SamplesPerBuffer
    /\ nb_channels = 2
    /\ streams \in {{Video}, {Audio}, {Video, Audio}}
    /\ session = 1
    /\ upstream = [scripted |-> FALSE, rest |-> <<>>]
    /\ ZeroCtx

(* ------------------------------------------------------------------ *)
(* Producer: shm_write_header                                          *)
(* ------------------------------------------------------------------ *)
SemName(c, which) == <<c, which>>
ShmName(c) == <<c, "shm">>

\* c->frame_buffer_size_* as shm_write_header computes it
FrameBufferSize(c) ==
    IF c = Video THEN VideoFrameSize          \* av_image_get_buffer_size(...)
    ELSE samples_per_buffer * nb_channels * 1 \* samples * channels * (bit_depth / 8)

\* the free semaphore created one too high
SemOpenCreateExtra(sem, c, which, value) ==
    IF SemName(c, which) \in names THEN sem[c]
    ELSE IF which = "empty" THEN value + 1 ELSE value

\* sem_open(name, O_CREAT, 0666, value): an existing semaphore keeps its value
SemOpenCreate(sem, c, which, value) ==
    IF SemName(c, which) \in names THEN sem[c] ELSE value

SHMHeaderOf ==
    [rec |-> "SHMHeader", version |-> 1, stream_count |-> Cardinality(streams),
     width |-> IF Video \in streams THEN VideoFrameSize ELSE 0,
     height |-> IF Video \in streams THEN 1 ELSE 0,
     sample_rate |-> IF Audio \in streams THEN 48000 ELSE 0,
     channels |-> IF Audio \in streams THEN nb_channels ELSE 0,
     bit_depth |-> IF Audio \in streams THEN 8 ELSE 0]

\* the names shm_write_header derives from the process id for channel c
ChannelNames(c) == {ShmName(c), SemName(c, "empty"), SemName(c, "full")}
SessionNames(S) == UNION {ChannelNames(c) : c \in S}

\* what the muxer holds for channel c once its setup is through: the descriptor,
\* the mapping and the two semaphore handles
ChannelHandles(c) == {<<c, "fd">>, <<c, "map">>, <<c, "empty">>, <<c, "full">>}

\* everything a successful shm_write_header holds, av_malloc'ed buffer included
ProducerAcquired(S) ==
    UNION {ChannelHandles(c) : c \in S} \cup
    (IF Audio \in S THEN {<<Audio, "buf">>} ELSE {})

\* the semaphore handles of the session; sem_open's result is never checked
SemHandles(S) == {<<c, w>> : c \in S, w \in {"empty", "full"}}

\* shm_write_header returning 0; lost are the sem_open calls that gave SEM_FAILED
WriteHeader(lost) ==
    /\ internal_buffer_audio' =
          IF Audio \in streams
          THEN [j \in 1..(2 * FrameBufferSize(Audio)) |-> Uninit]
          ELSE internal_buffer_audio
    /\ frame_buffer_size' =
          [c \in Ch |-> IF c \in streams THEN FrameBufferSize(c) ELSE frame_buffer_size[c]]
    /\ internal_buffer_size_audio' =
          IF Audio \in streams THEN 2 * FrameBufferSize(Audio)
          ELSE internal_buffer_size_audio
    /\ internal_buffer_occupancy_audio' =
          IF Audio \in streams THEN 0 ELSE internal_buffer_occupancy_audio
    /\ pts_counter_audio' = 0
    /\ names' = names \cup (SessionNames(streams) \ {SemName(h[1], h[2]) : h \in lost})
    /\ p_res' = ProducerAcquired(streams) \ lost
    /\ shm' = [c \in Ch |->
                 IF c \notin streams THEN shm[c]
                 ELSE IF ShmName(c) \in names THEN shm[c]
                 ELSE ZeroSegment(FrameBufferSize(c))]
    /\ shm_size' = [c \in Ch |->
                 IF c \in streams THEN SegmentSize(FrameBufferSize(c)) ELSE shm_size[c]]
    /\ eof' = [c \in Ch |-> IF c \in streams THEN 0 ELSE eof[c]]
    /\ write_index' = [c \in Ch |-> IF c \in streams THEN 0 ELSE write_index[c]]
    /\ empty_sem' = [c \in Ch |->
                 IF c \in streams /\ <<c, "empty">> \notin lost
                 THEN SemOpenCreate(empty_sem, c, "empty", NUM_BUFFERS)
                 ELSE empty_sem[c]]
    /\ full_sem' = [c \in Ch |->
                 IF c \in streams /\ <<c, "full">> \notin lost
                 THEN SemOpenCreate(full_sem, c, "full", 0)
                 ELSE full_sem[c]]
    /\ pipe' = Append(pipe, SHMHeaderOf)
    /\ sent' = Append(sent, SHMHeaderOf)
    /\ p_pc' = "idle"
    /\ p_ret' = 0
    /\ UNCHANGED <<cfgVars, upstream, nUnits, p_ctx, pkt_in, demuxVars, cLogVars,
                   published, audio_in, posted, p_errors,
                   last_unit, residual, p_oob, stray>>

\* every call of the setup succeeds
shm_write_header ==
    /\ p_pc = "header"
    /\ WriteHeader({})

\* one sem_open fails: SEM_FAILED is stored and the setup goes on to return 0
shm_write_header_semfail ==
    /\ p_pc = "header"
    /\ \E h \in SemHandles(streams) : WriteHeader({h})

\* the calls of the setup whose failure shm_write_header answers with an error
ProducerSteps(c) ==
    IF c = Video THEN <<"shm_open", "ftruncate", "mmap">>
    ELSE <<"av_malloc", "shm_open", "ftruncate", "mmap">>

\* what the muxer still holds when step k of channel c has failed and the error
\* path has run: nothing of the failing channel but the buffer if it was
\* allocated, and all of the video channel if that was set up before
ProducerLeft(c, k) ==
    (IF c = Audio /\ Video \in streams THEN ChannelHandles(Video) ELSE {}) \cup
    (IF c = Audio /\ k > 1 THEN {<<Audio, "buf">>} ELSE {})

\* the names that exist afterwards: shm_unlink of the failing channel's segment
\* where the error path calls it, the video names as created
ProducerNamesLeft(c, k) ==
    (names \cup (IF c = Audio /\ Video \in streams THEN ChannelNames(Video) ELSE {}))
        \ (IF ProducerSteps(c)[k] \in {"ftruncate", "mmap"} THEN {ShmName(c)} ELSE {})

\* shm_write_header returning an error: step k of channel c fails
shm_write_header_fail ==
    /\ p_pc = "header"
    /\ \E c \in streams : \E k \in 1..Len(ProducerSteps(c)) :
          /\ p_res' = ProducerLeft(c, k)
          /\ names' = ProducerNamesLeft(c, k)
          /\ p_ret' = IF ProducerSteps(c)[k] = "av_malloc" THEN -12 ELSE -1
          /\ LET done == IF c = Audio /\ Video \in streams THEN {Video} ELSE {}
             IN  /\ frame_buffer_size' =
                       [d \in Ch |-> IF d \in done THEN FrameBufferSize(d)
                                     ELSE frame_buffer_size[d]]
                 /\ shm' = [d \in Ch |->
                              IF d \in done /\ ShmName(d) \notin names
                              THEN ZeroSegment(FrameBufferSize(d)) ELSE shm[d]]
                 /\ shm_size' = [d \in Ch |->
                              IF d \in done THEN SegmentSize(FrameBufferSize(d))
                              ELSE shm_size[d]]
                 /\ empty_sem' = [d \in Ch |->
                              IF d \in done
                              THEN SemOpenCreate(empty_sem, d, "empty", NUM_BUFFERS)
                              ELSE empty_sem[d]]
                 /\ full_sem' = [d \in Ch |->
                              IF d \in done THEN SemOpenCreate(full_sem, d, "full", 0)
                              ELSE full_sem[d]]
                 /\ eof' = [d \in Ch |-> IF d \in done THEN 0 ELSE eof[d]]
    /\ pts_counter_audio' = 0
    /\ p_pc' = "failed"
    /\ UNCHANGED <<cfgVars, upstream, nUnits, pipe, p_ctx, pkt_in, write_index,
                   internal_buffer_audio, internal_buffer_size_audio,
                   internal_buffer_occupancy_audio, demuxVars, cLogVars, pLogVars, stray>>

(* ------------------------------------------------------------------ *)
(* Producer: shm_write_packet, video branch                            *)
(* ------------------------------------------------------------------ *)
\* the FrameHeader of a video packet written into slot i
VideoFrameHeader(p, i) ==
    [cmdtype |-> Video, size |-> p.size, pts |-> p.pts,
     offset |-> U64(SlotOffset(i, frame_buffer_size[Video]))]

\* the call: the stream is video, the muxer reaches sem_wait(empty_sem_video)
shm_write_packet_video ==
    /\ p_pc = "idle"
    /\ \E u \in NextUnits :
        /\ u.kind = Video
        /\ pkt_in' = u
        /\ last_unit' = u
    /\ p_pc' = "v_wait"
    /\ p_ctx' = "packet"
    /\ nUnits' = nUnits + 1
    /\ upstream' = UpstreamAfterCall
    /\ UNCHANGED <<cfgVars, kernelVars, pipe, write_index, frame_buffer_size,
                   internal_buffer_audio, internal_buffer_size_audio,
                   internal_buffer_occupancy_audio, pts_counter_audio, p_ret,
                   demuxVars, cLogVars, sent, published, audio_in, posted, p_errors,
                   residual, p_oob, p_res, stray>>

\* sem_wait(empty_sem_video) returns 0
VideoWaitOK ==
    /\ p_pc = "v_wait"
    /\ <<Video, "empty">> \in p_res
    /\ empty_sem[Video] > 0
    /\ empty_sem' = [empty_sem EXCEPT ![Video] = @ - 1]
    /\ p_pc' = "v_copy"
    /\ UNCHANGED <<cfgVars, upstream, nUnits, names, full_sem, shm, shm_size, eof, pipe,
                   p_ctx, pkt_in, write_index, frame_buffer_size,
                   internal_buffer_audio, internal_buffer_size_audio,
                   internal_buffer_occupancy_audio, pts_counter_audio, p_ret,
                   demuxVars, cLogVars, sent, published, audio_in, posted, p_errors,
                   last_unit, residual, p_oob, p_res, stray>>

\* sem_wait(empty_sem_video) < 0: a signal interrupts the blocked wait;
\* return AVERROR(errno)
VideoWaitFail ==
    /\ p_pc = "v_wait"
    /\ <<Video, "empty">> \in p_res
    /\ empty_sem[Video] = 0
    /\ p_errors + c_errors < MaxErrors
    /\ p_pc' = "idle"
    /\ pkt_in' = NoPacket
    /\ p_ret' = -1
    /\ p_errors' = p_errors + 1
    /\ UNCHANGED <<cfgVars, upstream, nUnits, kernelVars, pipe, p_ctx, write_index,
                   frame_buffer_size, internal_buffer_audio,
                   internal_buffer_size_audio, internal_buffer_occupancy_audio,
                   pts_counter_audio, demuxVars, cLogVars, sent, published,
                   audio_in, posted,
                   last_unit, residual, p_oob, p_res, stray>>

\* write_buffer = shm_video_buffer + sizeof(SHMControlBlock) + write_index * frame size
WriteBuffer == SlotOffset(write_index[Video], frame_buffer_size[Video])

\* memcpy(write_buffer, pkt->data, pkt->size), every byte inside the mapping; the
\* copy has no check of pkt->size against the slot
VideoCopy ==
    /\ p_pc = "v_copy"
    /\ WriteBuffer + pkt_in.size <= shm_size[Video]
    /\ shm' = [shm EXCEPT ![Video] = MemWrite(@, WriteBuffer, pkt_in.data)]
    /\ p_oob' = (p_oob \/ pkt_in.size > frame_buffer_size[Video])
    /\ p_pc' = "v_desc"
    /\ UNCHANGED <<cfgVars, upstream, nUnits, names, empty_sem, full_sem, shm_size, eof,
                   pipe, p_ctx, pkt_in, write_index, frame_buffer_size,
                   internal_buffer_audio, internal_buffer_size_audio,
                   internal_buffer_occupancy_audio, pts_counter_audio, p_ret,
                   demuxVars, cLogVars, sent, published, audio_in, posted, p_errors,
                   last_unit, residual, p_res, stray>>

\* the same memcpy running past the end of the mapping: the write is undefined; the
\* process faults, or the bytes land past the segment and the call goes on
VideoCopyOverrun ==
    /\ p_pc = "v_copy"
    /\ WriteBuffer + pkt_in.size > shm_size[Video]
    /\ shm' = [shm EXCEPT ![Video] = MemWrite(@, WriteBuffer, pkt_in.data)]
    /\ p_oob' = TRUE
    /\ \E fault \in BOOLEAN : p_pc' = IF fault THEN "crashed" ELSE "v_desc"
    /\ UNCHANGED <<cfgVars, upstream, nUnits, names, empty_sem, full_sem, shm_size, eof,
                   pipe, p_ctx, pkt_in, write_index, frame_buffer_size,
                   internal_buffer_audio, internal_buffer_size_audio,
                   internal_buffer_occupancy_audio, pts_counter_audio, p_ret,
                   demuxVars, cLogVars, sent, published, audio_in, posted, p_errors,
                   last_unit, residual, p_res, stray>>

\* avio_write(frame_header); avio_flush
VideoDescriptor ==
    /\ p_pc = "v_desc"
    /\ pipe' = Append(pipe, VideoFrameHeader(pkt_in, write_index[Video]))
    /\ sent' = Append(sent, VideoFrameHeader(pkt_in, write_index[Video]))
    /\ published' = Append(published, [kind |-> Video, size |-> pkt_in.size,
                                       pts |-> pkt_in.pts, data |-> pkt_in.data])
    /\ p_pc' = "v_post"
    /\ UNCHANGED <<cfgVars, upstream, nUnits, kernelVars, p_ctx, pkt_in, write_index,
                   frame_buffer_size, internal_buffer_audio, internal_buffer_size_audio,
                   internal_buffer_occupancy_audio, pts_counter_audio, p_ret,
                   demuxVars, cLogVars, audio_in, posted, p_errors,
                   last_unit, residual, p_oob, p_res, stray>>

\* the video frame published without its "ready" token
VideoPostNoToken ==
    /\ p_pc = "v_post"
    /\ <<Video, "full">> \in p_res
    /\ write_index' = [write_index EXCEPT ![Video] = NextIndex(@)]
    /\ posted' = Append(posted, Video)
    /\ p_pc' = "idle"
    /\ pkt_in' = NoPacket
    /\ p_ret' = 0
    /\ UNCHANGED <<cfgVars, upstream, nUnits, kernelVars, pipe,
                   p_ctx, frame_buffer_size, internal_buffer_audio,
                   internal_buffer_size_audio, internal_buffer_occupancy_audio,
                   pts_counter_audio, demuxVars, cLogVars, sent, published,
                   audio_in, p_errors,
                   last_unit, residual, p_oob, p_res, stray>>

\* write_index = (write_index + 1) % NUM_BUFFERS; sem_post(full_sem_video); return 0
VideoPost ==
    /\ p_pc = "v_post"
    /\ <<Video, "full">> \in p_res
    /\ write_index' = [write_index EXCEPT ![Video] = NextIndex(@)]
    /\ full_sem' = [full_sem EXCEPT ![Video] = @ + 1]
    /\ posted' = Append(posted, Video)
    /\ p_pc' = "idle"
    /\ pkt_in' = NoPacket
    /\ p_ret' = 0
    /\ UNCHANGED <<cfgVars, upstream, nUnits, names, empty_sem, shm, shm_size, eof, pipe,
                   p_ctx, frame_buffer_size, internal_buffer_audio,
                   internal_buffer_size_audio, internal_buffer_occupancy_audio,
                   pts_counter_audio, demuxVars, cLogVars, sent, published,
                   audio_in, p_errors,
                   last_unit, residual, p_oob, p_res, stray>>

(* ------------------------------------------------------------------ *)
(* Producer: shm_write_packet, audio branch, and write_full_audio_frame *)
(* ------------------------------------------------------------------ *)
\* the overflow check comparing against one byte more than the buffer holds
OverflowsLate(size) ==
    internal_buffer_occupancy_audio + size > internal_buffer_size_audio + 1

\* internal_buffer_occupancy_audio + pkt->size > internal_buffer_size_audio
Overflows(size) ==
    internal_buffer_occupancy_audio + size > internal_buffer_size_audio

\* memcpy(internal_buffer_audio + occupancy, pkt->data, pkt->size)
BufferAppend(buf, occ, data) ==
    [j \in 1..Len(buf) |->
        IF j > occ /\ j <= occ + Len(data) THEN data[j - occ] ELSE buf[j]]

\* memmove(buf, buf + fbs, rest) when rest > 0
BufferShift(buf, fbs, rest) ==
    [j \in 1..Len(buf) |-> IF j <= rest THEN buf[j + fbs] ELSE buf[j]]

\* memset(buf + occ, 0, n)
BufferZero(buf, occ, n) ==
    [j \in 1..Len(buf) |-> IF j > occ /\ j <= occ + n THEN 0 ELSE buf[j]]

\* pts counted in bytes instead of samples
AudioFrameHeaderBytes(i) ==
    [cmdtype |-> Audio, size |-> frame_buffer_size[Audio],
     pts |-> pts_counter_audio * nb_channels,
     offset |-> U64(SlotOffset(i, frame_buffer_size[Audio]))]

\* the FrameHeader write_full_audio_frame builds for slot i
AudioFrameHeader(i) ==
    [cmdtype |-> Audio, size |-> frame_buffer_size[Audio], pts |-> pts_counter_audio,
     offset |-> U64(SlotOffset(i, frame_buffer_size[Audio]))]

\* where shm_write_packet's loop goes once the buffer holds occ bytes
AfterAppend(occ) == IF occ >= frame_buffer_size[Audio] THEN "a_wait" ELSE "idle"

shm_write_packet_audio ==
    /\ p_pc = "idle"
    /\ \E u \in NextUnits :
        /\ u.kind = Audio
        /\ last_unit' = u
        /\ IF Overflows(u.size)
           THEN \* "Internal audio buffer overflow! Dropping data.": return 0
                /\ p_pc' = "idle"
                /\ UNCHANGED <<internal_buffer_audio, internal_buffer_occupancy_audio,
                               audio_in>>
           ELSE /\ internal_buffer_audio' =
                      BufferAppend(internal_buffer_audio,
                                   internal_buffer_occupancy_audio, u.data)
                /\ internal_buffer_occupancy_audio' =
                      internal_buffer_occupancy_audio + u.size
                /\ audio_in' = audio_in \o u.data
                /\ p_pc' = AfterAppend(internal_buffer_occupancy_audio + u.size)
    /\ p_ctx' = "packet"
    /\ p_ret' = 0
    /\ nUnits' = nUnits + 1
    /\ upstream' = UpstreamAfterCall
    /\ UNCHANGED <<cfgVars, kernelVars, pipe, pkt_in, write_index, frame_buffer_size,
                   internal_buffer_size_audio, pts_counter_audio,
                   demuxVars, cLogVars, sent, published, posted, p_errors,
                   residual, p_oob, p_res, stray>>

\* sem_wait(empty_sem_audio) returns 0
AudioWaitOK ==
    /\ p_pc = "a_wait"
    /\ <<Audio, "empty">> \in p_res
    /\ empty_sem[Audio] > 0
    /\ empty_sem' = [empty_sem EXCEPT ![Audio] = @ - 1]
    /\ p_pc' = "a_copy"
    /\ UNCHANGED <<cfgVars, upstream, nUnits, names, full_sem, shm, shm_size, eof, pipe,
                   p_ctx, pkt_in, write_index, frame_buffer_size,
                   internal_buffer_audio, internal_buffer_size_audio,
                   internal_buffer_occupancy_audio, pts_counter_audio, p_ret,
                   demuxVars, cLogVars, pLogVars,
                   p_res, stray>>

\* sem_wait(empty_sem_audio) < 0: write_full_audio_frame returns AVERROR(errno);
\* shm_write_packet passes it on, shm_write_trailer ignores it
AudioWaitFail ==
    /\ p_pc = "a_wait"
    /\ <<Audio, "empty">> \in p_res
    /\ empty_sem[Audio] = 0
    /\ p_errors + c_errors < MaxErrors
    /\ p_pc' = IF p_ctx = "packet" THEN "idle" ELSE "t_finish"
    /\ p_ret' = IF p_ctx = "packet" THEN -1 ELSE p_ret
    /\ p_errors' = p_errors + 1
    /\ UNCHANGED <<cfgVars, upstream, nUnits, kernelVars, pipe, p_ctx, pkt_in,
                   write_index, frame_buffer_size, internal_buffer_audio,
                   internal_buffer_size_audio, internal_buffer_occupancy_audio,
                   pts_counter_audio, demuxVars, cLogVars, sent, published,
                   audio_in, posted,
                   last_unit, residual, p_oob, p_res, stray>>

\* memcpy(write_buffer, c->internal_buffer_audio, c->frame_buffer_size_audio)
AudioCopy ==
    /\ p_pc = "a_copy"
    /\ shm' = [shm EXCEPT ![Audio] =
                 MemWrite(@, SlotOffset(write_index[Audio], frame_buffer_size[Audio]),
                          SubSeq(internal_buffer_audio, 1, frame_buffer_size[Audio]))]
    /\ p_pc' = "a_desc"
    /\ UNCHANGED <<cfgVars, upstream, nUnits, names, empty_sem, full_sem, shm_size, eof,
                   pipe, p_ctx, pkt_in, write_index, frame_buffer_size,
                   internal_buffer_audio, internal_buffer_size_audio,
                   internal_buffer_occupancy_audio, pts_counter_audio, p_ret,
                   demuxVars, cLogVars, pLogVars,
                   p_res, stray>>

\* frame_header = {1, size, pts_counter, offset}; pts_counter += samples_per_buffer;
\* avio_write; avio_flush
AudioDescriptor ==
    /\ p_pc = "a_desc"
    /\ pipe' = Append(pipe, AudioFrameHeader(write_index[Audio]))
    /\ sent' = Append(sent, AudioFrameHeader(write_index[Audio]))
    /\ pts_counter_audio' = pts_counter_audio + samples_per_buffer
    /\ published' = Append(published,
                           [kind |-> Audio, size |-> frame_buffer_size[Audio],
                            pts |-> pts_counter_audio,
                            data |-> SubSeq(internal_buffer_audio, 1,
                                            frame_buffer_size[Audio])])
    /\ p_pc' = "a_post"
    /\ UNCHANGED <<cfgVars, upstream, nUnits, kernelVars, p_ctx, pkt_in, write_index,
                   frame_buffer_size, internal_buffer_audio, internal_buffer_size_audio,
                   internal_buffer_occupancy_audio, p_ret,
                   demuxVars, cLogVars, audio_in, posted, p_errors,
                   last_unit, residual, p_oob, p_res, stray>>

\* where control goes when write_full_audio_frame returns 0 with occ bytes left
AfterFrame(occ) == IF p_ctx = "packet" THEN AfterAppend(occ) ELSE "t_finish"

\* write_index++ ; sem_post(full_sem_audio); occupancy -= frame size; memmove; return 0
AudioPost ==
    /\ p_pc = "a_post"
    /\ <<Audio, "full">> \in p_res
    /\ write_index' = [write_index EXCEPT ![Audio] = NextIndex(@)]
    /\ full_sem' = [full_sem EXCEPT ![Audio] = @ + 1]
    /\ posted' = Append(posted, Audio)
    /\ LET rest == internal_buffer_occupancy_audio - frame_buffer_size[Audio]
       IN  /\ internal_buffer_occupancy_audio' = rest
           /\ internal_buffer_audio' =
                 IF rest > 0
                 THEN BufferShift(internal_buffer_audio, frame_buffer_size[Audio], rest)
                 ELSE internal_buffer_audio
           /\ p_pc' = AfterFrame(rest)
    /\ UNCHANGED <<cfgVars, upstream, nUnits, names, empty_sem, shm, shm_size, eof, pipe,
                   p_ctx, pkt_in, frame_buffer_size, internal_buffer_size_audio,
                   pts_counter_audio, p_ret, demuxVars, cLogVars, sent, published,
                   audio_in, p_errors,
                   last_unit, residual, p_oob, p_res, stray>>

\* sem_wait or sem_post on a handle that is SEM_FAILED: the library reads through
\* the null pointer and the process dies
SemFailedUse ==
    /\ \/ p_pc = "v_wait" /\ <<Video, "empty">> \notin p_res
       \/ p_pc = "v_post" /\ <<Video, "full">> \notin p_res
       \/ p_pc = "a_wait" /\ <<Audio, "empty">> \notin p_res
       \/ p_pc = "a_post" /\ <<Audio, "full">> \notin p_res
    /\ p_pc' = "crashed"
    /\ UNCHANGED <<cfgVars, upstream, nUnits, kernelVars, pipe, p_ctx, pkt_in,
                   write_index, frame_buffer_size, internal_buffer_audio,
                   internal_buffer_size_audio, internal_buffer_occupancy_audio,
                   pts_counter_audio, p_ret, p_res, demuxVars, cLogVars, pLogVars, stray>>

(* ------------------------------------------------------------------ *)
(* Producer: shm_write_trailer                                         *)
(* ------------------------------------------------------------------ *)
EOSHeader == [cmdtype |-> EOS, size |-> 0, pts |-> 0, offset |-> U64(0)]

\* control_block_video->eof = 1; pad the residual and call write_full_audio_frame.
\* A residual above one frame makes padding_size negative: memset then runs with a
\* length near SIZE_MAX and the process dies.
shm_write_trailer ==
    /\ p_pc = "idle"
    /\ upstream.scripted => upstream.rest = <<>>
    /\ eof' = [eof EXCEPT ![Video] = IF Video \in streams THEN 1 ELSE @]
    /\ residual' = internal_buffer_occupancy_audio
    /\ IF Audio \in streams /\ internal_buffer_occupancy_audio > 0
       THEN LET padding_size == frame_buffer_size[Audio] - internal_buffer_occupancy_audio
            IN  IF padding_size < 0
                THEN /\ p_pc' = "crashed"
                     /\ UNCHANGED <<internal_buffer_audio,
                                    internal_buffer_occupancy_audio, p_ctx>>
                ELSE /\ internal_buffer_audio' =
                           BufferZero(internal_buffer_audio,
                                      internal_buffer_occupancy_audio, padding_size)
                     /\ internal_buffer_occupancy_audio' =
                           internal_buffer_occupancy_audio + padding_size
                     /\ p_pc' = "a_wait"
                     /\ p_ctx' = "trailer"
       ELSE /\ p_pc' = "t_finish"
            /\ p_ctx' = "trailer"
            /\ UNCHANGED <<internal_buffer_audio, internal_buffer_occupancy_audio>>
    /\ UNCHANGED <<cfgVars, upstream, nUnits, names, empty_sem, full_sem, shm, shm_size,
                   pipe, pkt_in, write_index, frame_buffer_size,
                   internal_buffer_size_audio, pts_counter_audio, p_ret,
                   demuxVars, cLogVars, sent, published, audio_in, posted, p_errors,
                   last_unit, p_oob, p_res, stray>>

\* SEM_FAILED is the null pointer in some C libraries and another value in others
Builds == {"SEM_FAILED = NULL", "SEM_FAILED # NULL"}

\* the calls shm_write_trailer makes on the zeroed fields of a channel without a
\* stream, as <<caller, channel, handle, build>>: munmap asks for a non-null
\* buffer and close for a descriptor above 0, so neither is called; sem_close asks
\* for a handle other than SEM_FAILED, which the null handle is in one build only
TrailerStray ==
    {<<"muxer", c, w, "SEM_FAILED # NULL">> : c \in Ch \ streams, w \in {"empty", "full"}}

\* control_block_audio->eof = 1; write and flush the EOS header; munmap, close,
\* av_free, sem_close (nothing is unlinked); return 0
TrailerFinish ==
    /\ p_pc = "t_finish"
    /\ eof' = [eof EXCEPT ![Audio] = IF Audio \in streams THEN 1 ELSE @]
    /\ pipe' = Append(pipe, EOSHeader)
    /\ sent' = Append(sent, EOSHeader)
    /\ p_res' = p_res \ ProducerAcquired(Ch)
    /\ stray' = stray \cup TrailerStray
    /\ p_pc' = "done"
    /\ p_ret' = 0
    /\ UNCHANGED <<cfgVars, upstream, nUnits, names, empty_sem, full_sem, shm, shm_size,
                   p_ctx, pkt_in, write_index, frame_buffer_size,
                   internal_buffer_audio, internal_buffer_size_audio,
                   internal_buffer_occupancy_audio, pts_counter_audio,
                   demuxVars, cLogVars, published, audio_in, posted, p_errors,
                   last_unit, residual, p_oob>>

\* the writer's end of the pipe is closed once the muxer process is gone
WriterGone == p_pc \in {"done", "crashed", "failed"}

(* ------------------------------------------------------------------ *)
(* Consumer: shm_read_header                                           *)
(* ------------------------------------------------------------------ *)
\* the channels shm_read_header sets up for a header
HeaderStreams(h) ==
    {c \in Ch : IF c = Video THEN h.width > 0 /\ h.height > 0
                ELSE h.sample_rate > 0 /\ h.channels > 0}

\* avio_read of the SHMHeader; shm_open(O_RDONLY), sem_open(name, 0), fstat, mmap
shm_read_header ==
    /\ c_pc = "header"
    /\ pipe # <<>>
    /\ LET h == Head(pipe)
       IN  /\ \A c \in HeaderStreams(h) :
                  {ShmName(c), SemName(c, "empty"), SemName(c, "full")} \subseteq names
           /\ c_streams' = HeaderStreams(h)
           /\ shm_buffer_size' =
                 [c \in Ch |-> IF c \in HeaderStreams(h) THEN shm_size[c]
                               ELSE shm_buffer_size[c]]
           /\ c_res' = UNION {ChannelHandles(c) : c \in HeaderStreams(h)}
    /\ pipe' = Tail(pipe)
    /\ c_pc' = "idle"
    /\ c_ret' = 0
    /\ UNCHANGED <<cfgVars, upstream, nUnits, kernelVars, muxVars, frame_header,
                   c_held, cLogVars, pLogVars, stray>>

\* the calls of the setup of one channel, in the order shm_read_header makes them
ConsumerSteps == <<"shm_open", "sem_empty", "sem_full", "fstat", "mmap", "new_stream">>

\* the name step k of channel c opens, if it opens one
OpenedName(c, k) ==
    IF ConsumerSteps[k] = "shm_open" THEN {ShmName(c)}
    ELSE IF ConsumerSteps[k] = "sem_empty" THEN {SemName(c, "empty")}
    ELSE IF ConsumerSteps[k] = "sem_full" THEN {SemName(c, "full")}
    ELSE {}

\* what the demuxer still holds when step k of channel c has failed and the error
\* path has run: the two semaphore handles once both are open, and all of the
\* video channel if that was set up before
ConsumerLeft(h, c, k) ==
    (IF c = Audio /\ Video \in HeaderStreams(h) THEN ChannelHandles(Video) ELSE {}) \cup
    (IF k > 3 THEN {<<c, "empty">>, <<c, "full">>} ELSE {})

\* shm_read_header returning an error: step k of channel c fails, for want of the
\* name or of a descriptor or of memory; every step before it succeeded
shm_read_header_fail ==
    /\ c_pc = "header"
    /\ pipe # <<>>
    /\ LET h == Head(pipe)
       IN  \E c \in HeaderStreams(h) : \E k \in 1..Len(ConsumerSteps) :
             /\ c = Audio /\ Video \in HeaderStreams(h) => ChannelNames(Video) \subseteq names
             /\ \A j \in 1..(k - 1) : OpenedName(c, j) \subseteq names
             /\ c_res' = ConsumerLeft(h, c, k)
             /\ c_streams' = IF c = Audio /\ Video \in HeaderStreams(h) THEN {Video} ELSE {}
             /\ shm_buffer_size' =
                   [d \in Ch |-> IF d = Video /\ c = Audio /\ Video \in HeaderStreams(h)
                                 THEN shm_size[d] ELSE shm_buffer_size[d]]
    /\ pipe' = Tail(pipe)
    /\ c_pc' = "failed"
    /\ c_ret' = -1
    /\ UNCHANGED <<cfgVars, upstream, nUnits, kernelVars, muxVars, frame_header,
                   c_held, cLogVars, pLogVars, stray>>

\* avio_read returns fewer bytes than an SHMHeader: return AVERROR(EIO)
shm_read_header_short ==
    /\ c_pc = "header"
    /\ pipe = <<>>
    /\ WriterGone
    /\ c_pc' = "failed"
    /\ c_ret' = -5
    /\ UNCHANGED <<cfgVars, upstream, nUnits, kernelVars, muxVars, pipe, frame_header,
                   c_held, shm_buffer_size, c_streams, c_res, cLogVars, pLogVars, stray>>

(* ------------------------------------------------------------------ *)
(* Consumer: shm_read_packet                                           *)
(* ------------------------------------------------------------------ *)
\* the branches of shm_read_packet exchanged
RouteOfOther(fh) == IF fh.cmdtype = Video THEN Audio ELSE Video

\* the semaphore pair and segment shm_read_packet uses for a FrameHeader
RouteOf(fh) == fh.cmdtype

\* byte a of the mapping of channel c: the control block, then the slots
SegByte(c, a) ==
    IF a >= ControlBlockSize THEN shm[c][a]
    ELSE IF a = 8 THEN NUM_BUFFERS      \* num_buffers, low byte
    ELSE IF a = 12 THEN eof[c]          \* eof, low byte
    ELSE 0

\* frame_header.offset + frame_header.size > c->shm_buffer_size_*
OutOfBounds(fh, c) ==
    Gt64(Add64(fh.offset, U64(fh.size)), U64(shm_buffer_size[c]))

\* the address of byte j of the payload lies inside the mapping
Mapped(fh, c, j) ==
    LET a == Add64(fh.offset, U64(j))
    IN  /\ ~Gt64(fh.offset, a)          \* buffer + offset + j did not wrap
        /\ IsSmall(a)
        /\ ToNat(a) < shm_buffer_size[c]

\* the bytes of the payload that lie outside the mapping
Unmapped(fh, c) == {j \in 0..(fh.size - 1) : ~Mapped(fh, c, j)}

\* memcpy(pkt->data, buffer + offset, size) when every byte is mapped
PayloadAt(fh, c) == [j \in 1..fh.size |-> SegByte(c, ToNat(fh.offset) + j - 1)]

\* av_new_packet refuses sizes above INT_MAX - AV_INPUT_BUFFER_PADDING_SIZE
Allocatable(size) == size <= 2147483647 - 64

\* pkt->stream_index: 0 for video, nb_streams - 1 for audio
StreamIndex(kind) == IF kind = Video THEN 0 ELSE Cardinality(c_streams) - 1

\* what shm_read_packet hands back for frame_header with the bytes it copied
PacketOf(fh, data) ==
    [kind |-> fh.cmdtype, stream_index |-> StreamIndex(fh.cmdtype),
     size |-> fh.size, pts |-> fh.pts, data |-> data]

\* avio_read returns a whole FrameHeader of kind video or audio
ReadPacketData ==
    /\ c_pc = "idle"
    /\ pipe # <<>>
    /\ Head(pipe).cmdtype \in Ch
    /\ frame_header' = Head(pipe)
    /\ pipe' = Tail(pipe)
    /\ nTaken' = [nTaken EXCEPT ![Head(pipe).cmdtype] = @ + 1]
    /\ c_pc' = "wait"
    /\ UNCHANGED <<cfgVars, upstream, nUnits, kernelVars, muxVars, c_held,
                   shm_buffer_size, c_streams, c_ret, delivered, freed, c_errors,
                   last_read, oob, pLogVars,
                   c_res, stray>>

\* an EOS handled with a release of a video slot on the way out
ReadPacketEOSReleases ==
    /\ c_pc = "idle"
    /\ pipe # <<>>
    /\ Head(pipe).cmdtype = EOS
    /\ pipe' = Tail(pipe)
    /\ empty_sem' = [empty_sem EXCEPT ![Video] = @ + 1]
    /\ c_pc' = "eof"
    /\ c_ret' = -541478725
    /\ UNCHANGED <<cfgVars, upstream, nUnits, names, full_sem, shm, shm_size, eof,
                   muxVars, frame_header, c_held, shm_buffer_size, c_streams,
                   cLogVars, pLogVars,
                   c_res, stray>>

\* cmdtype == 2: return AVERROR_EOF; the caller stops reading
ReadPacketEOS ==
    /\ c_pc = "idle"
    /\ pipe # <<>>
    /\ Head(pipe).cmdtype = EOS
    /\ pipe' = Tail(pipe)
    /\ c_pc' = "eof"
    /\ c_ret' = -541478725     \* AVERROR_EOF
    /\ UNCHANGED <<cfgVars, upstream, nUnits, kernelVars, muxVars, frame_header, c_held,
                   shm_buffer_size, c_streams, cLogVars, pLogVars,
                   c_res, stray>>

\* avio_read returns fewer bytes than a FrameHeader: return AVERROR_EOF
ReadPacketShort ==
    /\ c_pc = "idle"
    /\ pipe = <<>>
    /\ WriterGone
    /\ c_pc' = "eof"
    /\ c_ret' = -541478725
    /\ UNCHANGED <<cfgVars, upstream, nUnits, kernelVars, muxVars, pipe, frame_header,
                   c_held, shm_buffer_size, c_streams, cLogVars, pLogVars,
                   c_res, stray>>

\* a cmdtype other than 0, 1, 2 takes neither branch: pts is set, 0 is returned
ReadPacketOther ==
    /\ c_pc = "idle"
    /\ pipe # <<>>
    /\ Head(pipe).cmdtype \notin Ch \cup {EOS}
    /\ pipe' = Tail(pipe)
    /\ delivered' = Append(delivered, [kind |-> Head(pipe).cmdtype, stream_index |-> -1,
                                       size |-> 0, pts |-> Head(pipe).pts,
                                       data |-> <<>>])
    /\ c_ret' = 0
    /\ UNCHANGED <<cfgVars, upstream, nUnits, kernelVars, muxVars, c_pc, frame_header,
                   c_held, shm_buffer_size, c_streams, freed, nTaken, c_errors,
                   last_read, oob, pLogVars,
                   c_res, stray>>

\* sem_wait(full_sem) returns 0
ReadWaitOK ==
    /\ c_pc = "wait"
    /\ full_sem[RouteOf(frame_header)] > 0
    /\ full_sem' = [full_sem EXCEPT ![RouteOf(frame_header)] = @ - 1]
    /\ c_held' = RouteOf(frame_header)
    /\ c_pc' = "check"
    /\ UNCHANGED <<cfgVars, upstream, nUnits, names, empty_sem, shm, shm_size, eof, pipe,
                   muxVars, frame_header, shm_buffer_size, c_streams, c_ret,
                   cLogVars, pLogVars,
                   c_res, stray>>

\* sem_wait(full_sem) < 0, interrupted while blocked: return AVERROR(errno); the
\* FrameHeader read from the pipe is gone
ReadWaitFail ==
    /\ c_pc = "wait"
    /\ full_sem[RouteOf(frame_header)] = 0
    /\ p_errors + c_errors < MaxErrors
    /\ c_pc' = "idle"
    /\ frame_header' = NoHeader
    /\ c_ret' = -1
    /\ c_errors' = c_errors + 1
    /\ UNCHANGED <<cfgVars, upstream, nUnits, kernelVars, pipe, muxVars, c_held,
                   shm_buffer_size, c_streams, delivered, freed, nTaken, last_read,
                   oob, pLogVars,
                   c_res, stray>>

\* a return past the wait that leaves the slot unreleased
PostFreeForgotten ==
    /\ UNCHANGED <<empty_sem, freed>>
    /\ c_held' = EOS

\* sem_post(empty_sem) of the channel the FrameHeader names, as every path past
\* the wait does before it returns
PostFree ==
    /\ empty_sem' = [empty_sem EXCEPT ![RouteOf(frame_header)] = @ + 1]
    /\ freed' = [freed EXCEPT ![RouteOf(frame_header)] =
                    @ \cup {nTaken[RouteOf(frame_header)] - 1}]
    /\ c_held' = EOS

\* the bounds check fails: sem_post(empty_sem); return AVERROR(EINVAL)
ReadReject ==
    /\ c_pc = "check"
    /\ OutOfBounds(frame_header, RouteOf(frame_header))
    /\ PostFree
    /\ c_pc' = "idle"
    /\ frame_header' = NoHeader
    /\ c_ret' = -22
    /\ c_errors' = c_errors + 1
    /\ UNCHANGED <<cfgVars, upstream, nUnits, names, full_sem, shm, shm_size, eof, pipe,
                   muxVars, shm_buffer_size, c_streams, delivered, nTaken,
                   last_read, oob, pLogVars,
                   c_res, stray>>

\* av_new_packet fails (no memory, or a size it refuses): sem_post(empty_sem);
\* return ret
ReadAllocFail ==
    /\ c_pc = "check"
    /\ ~OutOfBounds(frame_header, RouteOf(frame_header))
    /\ ~Allocatable(frame_header.size) \/ p_errors + c_errors < MaxErrors
    /\ PostFree
    /\ c_pc' = "idle"
    /\ frame_header' = NoHeader
    /\ c_ret' = -12
    /\ c_errors' = c_errors + 1
    /\ UNCHANGED <<cfgVars, upstream, nUnits, names, full_sem, shm, shm_size, eof, pipe,
                   muxVars, shm_buffer_size, c_streams, delivered, nTaken,
                   last_read, oob, pLogVars,
                   c_res, stray>>

\* av_new_packet succeeds; memcpy(pkt->data, shm_buffer + offset, size), every byte
\* mapped; stream_index; sem_post(empty_sem); pts = dts = frame_header.pts; return 0
ReadCopy ==
    /\ c_pc = "check"
    /\ ~OutOfBounds(frame_header, RouteOf(frame_header))
    /\ Allocatable(frame_header.size)
    /\ Unmapped(frame_header, RouteOf(frame_header)) = {}
    /\ last_read' = PayloadAt(frame_header, RouteOf(frame_header))
    /\ PostFree
    /\ delivered' = Append(delivered,
                           PacketOf(frame_header,
                                    PayloadAt(frame_header, RouteOf(frame_header))))
    /\ c_pc' = "idle"
    /\ frame_header' = NoHeader
    /\ c_ret' = 0
    /\ UNCHANGED <<cfgVars, upstream, nUnits, names, full_sem, shm, shm_size, eof, pipe,
                   muxVars, shm_buffer_size, c_streams, nTaken, c_errors, oob,
                   pLogVars,
                   c_res, stray>>

\* the same memcpy when some byte of [offset, offset + size) is not mapped: the
\* read is undefined; the process faults, or the copy returns whatever is there
\* and the call goes on as above
ReadCopyUnmapped ==
    /\ c_pc = "check"
    /\ ~OutOfBounds(frame_header, RouteOf(frame_header))
    /\ Allocatable(frame_header.size)
    /\ Unmapped(frame_header, RouteOf(frame_header)) # {}
    /\ oob' = TRUE
    /\ \E g \in Garbage, fault \in BOOLEAN :
           LET data == [j \in 1..frame_header.size |-> g]
           IN  /\ last_read' = data
               /\ IF fault
                  THEN /\ c_pc' = "crashed"
                       /\ UNCHANGED <<empty_sem, freed, delivered, c_held, frame_header,
                                      c_ret>>
                  ELSE /\ PostFree
                       /\ delivered' = Append(delivered, PacketOf(frame_header, data))
                       /\ c_pc' = "idle"
                       /\ frame_header' = NoHeader
                       /\ c_ret' = 0
    /\ UNCHANGED <<cfgVars, upstream, nUnits, names, full_sem, shm, shm_size, eof, pipe,
                   muxVars, shm_buffer_size, c_streams, nTaken, c_errors, pLogVars,
                   c_res, stray>>

(* ------------------------------------------------------------------ *)
(* Consumer: shm_read_close                                            *)
(* ------------------------------------------------------------------ *)
\* the calls shm_read_close makes on the zeroed fields of a channel the header
\* did not carry: munmap asks for a non-null buffer and is not called; close asks
\* for a descriptor >= 0, which 0 is, in every build; sem_close as in the trailer
CloseStray ==
    {<<"demuxer", c, "fd", b>> : c \in Ch \ c_streams, b \in Builds} \cup
    {<<"demuxer", c, w, "SEM_FAILED # NULL">> : c \in Ch \ c_streams, w \in {"empty", "full"}}

\* a close that also removes the names it had opened
shm_read_close_unlinks ==
    /\ c_pc \in {"idle", "eof"}
    /\ c_res' = {}
    /\ names' = names \ SessionNames(c_streams)
    /\ c_pc' = "closed"
    /\ c_ret' = 0
    /\ UNCHANGED <<cfgVars, upstream, nUnits, empty_sem, full_sem, shm, shm_size, eof,
                   pipe, muxVars, frame_header, c_held, shm_buffer_size, c_streams,
                   cLogVars, pLogVars, stray>>

\* munmap, close and sem_close of what the demuxer holds; return 0. The caller
\* closes between two calls of shm_read_packet or after the last
shm_read_close ==
    /\ c_pc \in {"idle", "eof"}
    /\ c_res' = c_res \ UNION {ChannelHandles(c) : c \in Ch}
    /\ stray' = stray \cup CloseStray
    /\ c_pc' = "closed"
    /\ c_ret' = 0
    /\ UNCHANGED <<cfgVars, upstream, nUnits, kernelVars, pipe, muxVars, frame_header,
                   c_held, shm_buffer_size, c_streams, cLogVars, pLogVars>>

(* ------------------------------------------------------------------ *)
(* The session: one muxer process and one demuxer process              *)
(* ------------------------------------------------------------------ *)
Producer ==
    \/ shm_write_header
    \/ shm_write_packet_video
    \/ VideoWaitOK
    \/ VideoWaitFail
    \/ VideoCopy
    \/ VideoDescriptor
    \/ VideoPost
    \/ shm_write_packet_audio
    \/ AudioWaitOK
    \/ AudioWaitFail
    \/ AudioCopy
    \/ AudioDescriptor
    \/ AudioPost
    \/ shm_write_trailer
    \/ TrailerFinish

Consumer ==
    \/ shm_read_header
    \/ ReadPacketData
    \/ ReadPacketEOS
    \/ ReadPacketShort
    \/ ReadWaitOK
    \/ ReadWaitFail
    \/ ReadAllocFail
    \/ ReadCopy

Next == Producer \/ Consumer

Spec == Init /\ [][Next]_vars

(* ------------------------------------------------------------------ *)
(* The consumer against an arbitrary writer of the pipe                *)
(* ------------------------------------------------------------------ *)
\* offsets a FrameHeader can carry: the first slot, the last byte of the segment,
\* one past it, and the largest value of the field
PeerOffsets(c) ==
    {U64(ControlBlockSize), U64(shm_size[c] - 1), U64(shm_size[c]), Max64}

\* kind tags a FrameHeader can carry: video, audio, and one that is none of 0, 1, 2
PeerKinds == Ch \cup {EOS + 1}

\* sizes a FrameHeader can carry, up to INT_MAX
PeerSizes == {1, VideoFrameSize, 2147483647}

\* both channels set up as shm_write_header and shm_read_header leave them; the
\* writer's end of the pipe is held by a process that is not the muxer
InitPeer ==
    /\ samples_per_buffer = SamplesPerBuffer
    /\ nb_channels = 2
    /\ streams = {Video, Audio}
    /\ session = 1
    /\ upstream = [scripted |-> FALSE, rest |-> <<>>]
    /\ nUnits = 0
    /\ names = UNION {{ShmName(c), SemName(c, "empty"), SemName(c, "full")} : c \in Ch}
    /\ empty_sem = [c \in Ch |-> NUM_BUFFERS]
    /\ full_sem = [c \in Ch |-> 0]
    /\ shm = [c \in Ch |-> ZeroSegment(FrameBufferSize(c))]
    /\ shm_size = [c \in Ch |-> SegmentSize(FrameBufferSize(c))]
    /\ eof = [c \in Ch |-> 0]
    /\ pipe = <<>>
    /\ p_pc = "peer"
    /\ p_ctx = "packet"
    /\ pkt_in = NoPacket
    /\ write_index = [c \in Ch |-> 0]
    /\ frame_buffer_size = [c \in Ch |-> FrameBufferSize(c)]
    /\ internal_buffer_audio = <<>>
    /\ internal_buffer_size_audio = 0
    /\ internal_buffer_occupancy_audio = 0
    /\ pts_counter_audio = 0
    /\ p_ret = 0
    /\ p_res = {}
    /\ c_pc = "idle"
    /\ frame_header = NoHeader
    /\ c_held = EOS
    /\ shm_buffer_size = [c \in Ch |-> SegmentSize(FrameBufferSize(c))]
    /\ c_streams = {Video, Audio}
    /\ c_ret = 0
    /\ c_res = {}
    /\ sent = <<>>
    /\ published = <<>>
    /\ audio_in = <<>>
    /\ delivered = <<>>
    /\ posted = <<>>
    /\ freed = [c \in Ch |-> {}]
    /\ nTaken = [c \in Ch |-> 0]
    /\ c_errors = 0
    /\ p_errors = 0
    /\ last_read = <<>>
    /\ oob = FALSE
    /\ last_unit = NoPacket
    /\ residual = -1
    /\ p_oob = FALSE
    /\ stray = {}

\* the writer puts a FrameHeader of its choosing on the pipe and posts ready
PeerSend ==
    /\ p_pc = "peer"
    /\ pipe = <<>>
    /\ nUnits < MaxUnits - 1
    /\ \E k \in PeerKinds, sz \in PeerSizes :
       \E off \in PeerOffsets(IF k \in Ch THEN k ELSE Video) :
          /\ pipe' = Append(pipe, [cmdtype |-> k, size |-> sz, pts |-> PtsOf(nUnits),
                                   offset |-> off])
          /\ full_sem' = [c \in Ch |-> IF c = k THEN full_sem[c] + 1 ELSE full_sem[c]]
          /\ posted' = IF k \in Ch THEN Append(posted, k) ELSE posted
    /\ nUnits' = nUnits + 1
    /\ UNCHANGED <<cfgVars, upstream, names, empty_sem, shm, shm_size, eof, muxVars,
                   demuxVars, cLogVars, sent, published, audio_in, p_errors,
                   last_unit, residual, p_oob, stray>>

\* the writer exits: its end of the pipe is closed with nothing left to read
PeerClose ==
    /\ p_pc = "peer"
    /\ pipe = <<>>
    /\ p_pc' = "done"
    /\ UNCHANGED <<cfgVars, upstream, nUnits, kernelVars, pipe, p_ctx, pkt_in,
                   write_index, frame_buffer_size, internal_buffer_audio,
                   internal_buffer_size_audio, internal_buffer_occupancy_audio,
                   pts_counter_audio, p_ret, p_res, demuxVars, cLogVars, pLogVars, stray>>

NextPeer ==
    \/ PeerSend
    \/ PeerClose
    \/ ReadPacketShort
    \/ ReadPacketData
    \/ ReadPacketOther
    \/ ReadWaitOK
    \/ ReadReject
    \/ ReadAllocFail
    \/ ReadCopy
    \/ ReadCopyUnmapped

SpecBounds == InitPeer /\ [][NextPeer]_vars

(* ------------------------------------------------------------------ *)
(* The audio path fed the units of the repacketization example         *)
(* ------------------------------------------------------------------ *)
RepackSizes == <<100, 50, 300>>

RepackUnits ==
    [n \in 1..Len(RepackSizes) |->
        [kind |-> Audio, size |-> RepackSizes[n], pts |-> PtsOf(n),
         data |-> Data(n, RepackSizes[n])]]

\* one audio stream, one byte per sample, one channel, 128 samples per buffer
InitRepack ==
    /\ samples_per_buffer = 128
    /\ nb_channels = 1
    /\ streams = {Audio}
    /\ session = 1
    /\ upstream = [scripted |-> TRUE, rest |-> RepackUnits]
    /\ ZeroCtx

NextRepack ==
    \/ shm_write_header
    \/ shm_write_packet_audio
    \/ AudioWaitOK
    \/ AudioCopy
    \/ AudioDescriptor
    \/ AudioPost
    \/ shm_write_trailer
    \/ TrailerFinish
    \/ shm_read_header
    \/ ReadPacketData
    \/ ReadPacketEOS
    \/ ReadWaitOK
    \/ ReadWaitFail
    \/ ReadAllocFail
    \/ ReadCopy

SpecRepack == InitRepack /\ [][NextRepack]_vars

(* ------------------------------------------------------------------ *)
(* The video path fed units larger than a slot                         *)
(* ------------------------------------------------------------------ *)
\* an oversized unit for the first slot, a small one, an oversized one for the last
OversizeSizes == <<VideoFrameSize + 1, 1, VideoFrameSize + 1>>

OversizeUnits ==
    [n \in 1..Len(OversizeSizes) |->
        [kind |-> Video, size |-> OversizeSizes[n], pts |-> PtsOf(n),
         data |-> Data(n, OversizeSizes[n])]]

InitOversize ==
    /\ samples_per_buffer = SamplesPerBuffer
    /\ nb_channels = 2
    /\ streams = {Video}
    /\ session = 1
    /\ upstream = [scripted |-> TRUE, rest |-> OversizeUnits]
    /\ ZeroCtx

NextOversize ==
    \/ shm_write_header
    \/ shm_write_packet_video
    \/ VideoWaitOK
    \/ VideoCopy
    \/ VideoCopyOverrun
    \/ VideoDescriptor
    \/ VideoPost
    \/ shm_write_trailer
    \/ TrailerFinish
    \/ shm_read_header
    \/ ReadPacketData
    \/ ReadPacketEOS
    \/ ReadPacketShort
    \/ ReadWaitOK
    \/ ReadReject
    \/ ReadCopy

SpecOversize == InitOversize /\ [][NextOversize]_vars

(* ------------------------------------------------------------------ *)
(* A video session whose muxer process may die at any point            *)
(* ------------------------------------------------------------------ *)
DeathSizes == <<1, VideoFrameSize>>

DeathUnits ==
    [n \in 1..Len(DeathSizes) |->
        [kind |-> Video, size |-> DeathSizes[n], pts |-> PtsOf(n),
         data |-> Data(n, DeathSizes[n])]]

InitDeath ==
    /\ samples_per_buffer = SamplesPerBuffer
    /\ nb_channels = 2
    /\ streams = {Video}
    /\ session = 1
    /\ upstream = [scripted |-> TRUE, rest |-> DeathUnits]
    /\ ZeroCtx

\* the muxer process is killed: nothing it had not yet done happens, the kernel
\* closes its end of the pipe, the segment and the semaphores stay as they are
ProducerDies ==
    /\ p_pc \notin {"done", "crashed"}
    /\ p_pc' = "crashed"
    /\ UNCHANGED <<cfgVars, upstream, nUnits, kernelVars, pipe, p_ctx, pkt_in,
                   write_index, frame_buffer_size, internal_buffer_audio,
                   internal_buffer_size_audio, internal_buffer_occupancy_audio,
                   pts_counter_audio, p_ret, p_res, demuxVars, cLogVars, pLogVars, stray>>

\* the steps a running muxer takes by itself
DeathProducer ==
    \/ shm_write_header
    \/ shm_write_packet_video
    \/ VideoWaitOK
    \/ VideoCopy
    \/ VideoDescriptor
    \/ VideoPost
    \/ shm_write_trailer
    \/ TrailerFinish

\* the steps a running demuxer takes by itself
DeathConsumer ==
    \/ shm_read_header
    \/ ReadPacketData
    \/ ReadPacketEOS
    \/ ReadPacketShort
    \/ ReadWaitOK
    \/ ReadCopy

NextDeath == DeathProducer \/ ProducerDies \/ DeathConsumer \/ ReadWaitFail

\* both processes are scheduled; a signal interrupting a wait is never certain
SpecDeath ==
    InitDeath /\ [][NextDeath]_vars /\ WF_vars(DeathProducer) /\ WF_vars(DeathConsumer)

(* ------------------------------------------------------------------ *)
(* Setup and teardown, with the calls of the setup allowed to fail     *)
(* ------------------------------------------------------------------ *)
\* one video unit and one audio unit of exactly one frame
SetupUnits ==
    <<[kind |-> Video, size |-> 1, pts |-> PtsOf(1), data |-> Data(1, 1)],
      [kind |-> Audio, size |-> FrameBufferSize(Audio), pts |-> PtsOf(2),
       data |-> Data(2, FrameBufferSize(Audio))]>>

InitSetup ==
    /\ samples_per_buffer = 1
    /\ nb_channels = 2
    /\ streams \in {{Video}, {Audio}, {Video, Audio}}
    /\ session = 1
    /\ upstream = [scripted |-> TRUE,
                   rest |-> SelectSeq(SetupUnits, LAMBDA u : u.kind \in streams)]
    /\ ZeroCtx

NextSetup ==
    \/ shm_write_header
    \/ shm_write_header_semfail
    \/ shm_write_header_fail
    \/ shm_write_packet_video
    \/ VideoWaitOK
    \/ VideoCopy
    \/ VideoDescriptor
    \/ VideoPost
    \/ shm_write_packet_audio
    \/ AudioWaitOK
    \/ AudioCopy
    \/ AudioDescriptor
    \/ AudioPost
    \/ SemFailedUse
    \/ shm_write_trailer
    \/ TrailerFinish
    \/ shm_read_header
    \/ shm_read_header_fail
    \/ shm_read_header_short
    \/ ReadPacketData
    \/ ReadPacketEOS
    \/ ReadWaitOK
    \/ ReadCopy
    \/ shm_read_close

SpecSetup == InitSetup /\ [][NextSetup]_vars

(* ------------------------------------------------------------------ *)
(* Sessions one after another in a process that opens the muxer again  *)
(* ------------------------------------------------------------------ *)
SessionUnits ==
    <<[kind |-> Video, size |-> 1, pts |-> PtsOf(1), data |-> Data(1, 1)],
      [kind |-> Video, size |-> VideoFrameSize, pts |-> PtsOf(2),
       data |-> Data(2, VideoFrameSize)]>>

InitSessions ==
    /\ samples_per_buffer = SamplesPerBuffer
    /\ nb_channels = 2
    /\ streams = {Video}
    /\ session = 1
    /\ upstream = [scripted |-> TRUE, rest |-> SessionUnits]
    /\ ZeroCtx

\* the muxer is opened again with a fresh context and a fresh pipe, and a demuxer
\* with it; getpid() is what it was, so the names are those of the session before;
\* the kernel's objects are as that session left them
NewSession ==
    /\ p_pc = "done"
    /\ c_pc = "closed"
    /\ session < MaxSessions
    /\ session' = session + 1
    /\ upstream' = [scripted |-> TRUE, rest |-> SessionUnits]
    /\ nUnits' = 0
    /\ pipe' = <<>>
    /\ p_pc' = "header"
    /\ p_ctx' = "packet"
    /\ pkt_in' = NoPacket
    /\ write_index' = [c \in Ch |-> 0]
    /\ frame_buffer_size' = [c \in Ch |-> 0]
    /\ internal_buffer_audio' = <<>>
    /\ internal_buffer_size_audio' = 0
    /\ internal_buffer_occupancy_audio' = 0
    /\ pts_counter_audio' = 0
    /\ p_ret' = 0
    /\ p_res' = {}
    /\ c_pc' = "header"
    /\ frame_header' = NoHeader
    /\ c_held' = EOS
    /\ shm_buffer_size' = [c \in Ch |-> 0]
    /\ c_streams' = {}
    /\ c_ret' = 0
    /\ c_res' = {}
    /\ sent' = <<>>
    /\ published' = <<>>
    /\ audio_in' = <<>>
    /\ delivered' = <<>>
    /\ posted' = <<>>
    /\ freed' = [c \in Ch |-> {}]
    /\ nTaken' = [c \in Ch |-> 0]
    /\ c_errors' = 0
    /\ p_errors' = 0
    /\ last_read' = <<>>
    /\ oob' = FALSE
    /\ last_unit' = NoPacket
    /\ residual' = -1
    /\ p_oob' = FALSE
    /\ stray' = {}
    /\ UNCHANGED <<samples_per_buffer, nb_channels, streams, kernelVars>>

NextSessions ==
    \/ shm_write_header
    \/ shm_write_packet_video
    \/ VideoWaitOK
    \/ VideoCopy
    \/ VideoDescriptor
    \/ VideoPost
    \/ shm_write_trailer
    \/ TrailerFinish
    \/ shm_read_header
    \/ ReadPacketData
    \/ ReadPacketEOS
    \/ ReadWaitOK
    \/ ReadCopy
    \/ shm_read_close
    \/ NewSession

SpecSessions == InitSessions /\ [][NextSessions]_vars

(* ------------------------------------------------------------------ *)
(* A session in which no call fails and both processes keep running    *)
(* ------------------------------------------------------------------ *)
\* video and audio units in turn, four of each and more audio frames than slots,
\* then a unit that leaves a residual for the trailer
LiveKinds == <<Video, Audio, Video, Audio, Video, Audio, Video, Audio, Audio>>

LiveSize(n) ==
    IF LiveKinds[n] = Video THEN 1 + (n % VideoFrameSize)
    ELSE IF n < Len(LiveKinds) THEN FrameBufferSize(Audio) + 2
    ELSE FrameBufferSize(Audio) - 1

LiveUnits ==
    [n \in 1..Len(LiveKinds) |->
        [kind |-> LiveKinds[n], size |-> LiveSize(n), pts |-> PtsOf(n),
         data |-> Data(n, LiveSize(n))]]

InitLive ==
    /\ samples_per_buffer = SamplesPerBuffer
    /\ nb_channels = 2
    /\ streams \in {{Video}, {Audio}, {Video, Audio}}
    /\ session = 1
    /\ upstream = [scripted |-> TRUE,
                   rest |-> SelectSeq(LiveUnits, LAMBDA u : u.kind \in streams)]
    /\ ZeroCtx

\* the muxer's steps when every sem_wait returns 0
LiveProducer ==
    \/ shm_write_header
    \/ shm_write_packet_video
    \/ VideoWaitOK
    \/ VideoCopy
    \/ VideoDescriptor
    \/ VideoPost
    \/ shm_write_packet_audio
    \/ AudioWaitOK
    \/ AudioCopy
    \/ AudioDescriptor
    \/ AudioPost
    \/ shm_write_trailer
    \/ TrailerFinish

\* the demuxer's steps when every sem_wait and av_new_packet succeeds
LiveConsumer ==
    \/ shm_read_header
    \/ ReadPacketData
    \/ ReadPacketEOS
    \/ ReadWaitOK
    \/ ReadCopy

NextLive == LiveProducer \/ LiveConsumer

\* each process takes a step it can take: a sem_wait on a semaphore above 0
\* returns, the caller calls again, and the upstream ends with the trailer
SpecLive ==
    InitLive /\ [][NextLive]_vars /\ WF_vars(LiveProducer) /\ WF_vars(LiveConsumer)

(* ------------------------------------------------------------------ *)
(* Reading the logs                                                    *)
(* ------------------------------------------------------------------ *)
OfKind(seq, k) == SelectSeq(seq, LAMBDA r : r.kind = k)

\* a delivered packet without its stream index: what the producer logged for it
Content(p) == [kind |-> p.kind, size |-> p.size, pts |-> p.pts, data |-> p.data]

Contents(seq) == [i \in 1..Len(seq) |-> Content(seq[i])]

IsPrefix(a, b) == Len(a) <= Len(b) /\ SubSeq(b, 1, Len(a)) = a

\* a is b with some elements left out
RECURSIVE IsSubseq(_, _)
IsSubseq(a, b) ==
    IF a = <<>> THEN TRUE
    ELSE IF b = <<>> THEN FALSE
    ELSE IF Head(a) = Head(b) THEN IsSubseq(Tail(a), Tail(b))
    ELSE IsSubseq(a, Tail(b))

\* the data FrameHeaders among the records written to the pipe
DataHeaders(seq) == SelectSeq(seq, LAMBDA r : "cmdtype" \in DOMAIN r /\ r.cmdtype \in Ch)

\* the number of sem_post(full_sem) calls on channel c so far
ReadyPosts(c) == Len(SelectSeq(posted, LAMBDA k : k = c))

\* frames published on channel c: their descriptor is written
Published(c) == Len(OfKind(published, c))

Fits(seq, c) == \A i \in 1..Len(seq) : seq[i].size <= frame_buffer_size[c]

(* ------------------------------------------------------------------ *)
(* C1                                                                  *)
(* ------------------------------------------------------------------ *)
\* C1: the video packets shm_read_packet returns are, in order, video frames that
\* shm_write_packet published, each with the size, pts and payload bytes of that
\* input frame (frames no larger than a slot); while no shm_read_packet call has
\* failed they are the first frames published, and once the consumer has read the
\* EOS record they are all of them.
C1_RoundTrip ==
    LET out == Contents(OfKind(delivered, Video))
        inp == OfKind(published, Video)
    IN  Fits(inp, Video) =>
          /\ IsSubseq(out, inp)
          /\ c_errors = 0 => IsPrefix(out, inp)
          /\ (c_errors = 0 /\ c_pc = "eof") => out = inp

\* a session ended with four video frames through three slots, sizes differing
C1_Witness ==
    /\ c_pc = "eof"
    /\ c_errors = 0
    /\ p_errors = 0
    /\ Len(OfKind(delivered, Video)) = NUM_BUFFERS + 1
    /\ \E i, j \in 1..Len(delivered) : delivered[i].size # delivered[j].size

(* ------------------------------------------------------------------ *)
(* C2                                                                  *)
(* ------------------------------------------------------------------ *)
\* the frame whose descriptor the consumer holds, counted per channel from 0
ConsumerFrame == nTaken[RouteOf(frame_header)] - 1

\* the channel the producer is copying a frame into, and that frame's number
Copying(c) == (c = Video /\ p_pc = "v_copy") \/ (c = Audio /\ p_pc = "a_copy")

\* C2: the consumer copies frame k only after the ready post for frame k; the
\* producer writes frame k only after the free post for frame k - 3; the consumer
\* never reads the slot the producer is writing.
C2_Handshake ==
    /\ c_pc = "check" => ReadyPosts(RouteOf(frame_header)) > ConsumerFrame
    /\ \A c \in Ch :
          (Copying(c) /\ Published(c) >= NUM_BUFFERS) =>
              (Published(c) - NUM_BUFFERS) \in freed[c]
    /\ \A c \in Ch :
          (Copying(c) /\ c_pc = "check" /\ RouteOf(frame_header) = c) =>
              frame_header.offset # U64(SlotOffset(write_index[c], frame_buffer_size[c]))

\* the part of C2 that does hold: no read of a slot while it is written
C2_NoReadWhileWritten ==
    \A c \in Ch :
        (Copying(c) /\ c_pc = "check" /\ RouteOf(frame_header) = c) =>
            frame_header.offset # U64(SlotOffset(write_index[c], frame_buffer_size[c]))

\* a descriptor in hand whose frame has no ready post yet
C2_Early ==
    /\ c_pc = "check"
    /\ ReadyPosts(RouteOf(frame_header)) <= ConsumerFrame

(* ------------------------------------------------------------------ *)
(* C3                                                                  *)
(* ------------------------------------------------------------------ *)
\* slots the producer holds on channel c: between sem_wait(empty) and sem_post(full)
ProducerHeld(c) ==
    IF c = Video /\ p_pc \in {"v_copy", "v_desc", "v_post"} THEN 1
    ELSE IF c = Audio /\ p_pc \in {"a_copy", "a_desc", "a_post"} THEN 1
    ELSE 0

\* slots the consumer holds on channel c: between sem_wait(full) and sem_post(empty)
ConsumerHeld(c) == IF c_pc \in {"check", "crashed"} /\ c_held = c THEN 1 ELSE 0

\* C3: on every channel of the session, free + ready + slots held by the producer
\* or the consumer is NUM_BUFFERS, also after shm_read_packet returned an error.
C3_Conservation ==
    \A c \in streams :
        SemName(c, "empty") \in names =>
            empty_sem[c] + full_sem[c] + ProducerHeld(c) + ConsumerHeld(c) = NUM_BUFFERS

\* shm_read_packet has returned an error and the producer is filling a slot
C3_Witness ==
    /\ c_errors > 0
    /\ c_pc = "idle"
    /\ c_ret < 0
    /\ \E c \in streams : full_sem[c] > 0 /\ ProducerHeld(c) = 1

(* ------------------------------------------------------------------ *)
(* C4                                                                  *)
(* ------------------------------------------------------------------ *)
\* sem_post(empty_sem) calls on channel c so far
FreePosts(c) == Cardinality(freed[c])

\* frames of channel c with ready posted and free not yet posted
Unreleased(c) == ReadyPosts(c) - FreePosts(c)

CurrentSlot(c, n) ==
    MemRead(shm[c], SlotOffset(write_index[c], frame_buffer_size[c]), n)

\* the last record written to the pipe describes the slot being filled on channel c
DescriptorWritten(c, size, pts) ==
    /\ sent # <<>>
    /\ sent[Len(sent)] =
          [cmdtype |-> c, size |-> size, pts |-> pts,
           offset |-> U64(SlotOffset(write_index[c], frame_buffer_size[c]))]

\* C5: when the producer writes a frame's descriptor the whole payload is in the
\* slot; when it posts ready the payload is in the slot and the descriptor is the
\* last record written to the pipe; ready is never posted more often on a channel
\* than descriptors were written for it.
C5_PublishOrder ==
    /\ p_pc \in {"v_desc", "v_post"} => CurrentSlot(Video, pkt_in.size) = pkt_in.data
    /\ p_pc = "v_post" => DescriptorWritten(Video, pkt_in.size, pkt_in.pts)
    /\ p_pc \in {"a_desc", "a_post"} =>
          CurrentSlot(Audio, frame_buffer_size[Audio]) =
              SubSeq(internal_buffer_audio, 1, frame_buffer_size[Audio])
    /\ p_pc = "a_post" =>
          DescriptorWritten(Audio, frame_buffer_size[Audio],
                            pts_counter_audio - samples_per_buffer)
    /\ \A c \in Ch :
          /\ ReadyPosts(c) <= Published(c)
          /\ Published(c) <= ReadyPosts(c) + ProducerHeld(c)

\* the producer is about to post ready for a video frame that fills its slot, and
\* has posted ready for audio before
C5_Witness ==
    /\ p_pc = "v_post"
    /\ pkt_in.size = frame_buffer_size[Video]
    /\ ReadyPosts(Audio) > 0

(* ------------------------------------------------------------------ *)
(* C6                                                                  *)
(* ------------------------------------------------------------------ *)
Kinds(seq) == [i \in 1..Len(seq) |-> seq[i].kind]

Tags(seq) == [i \in 1..Len(seq) |-> seq[i].cmdtype]

\* C6: the data descriptors on the pipe are in the order of the producer's ready
\* posts (at most the one being published is ahead of its post); the consumer
\* returns the frames of both kinds in that order with their contents; for a
\* descriptor it waits on, and posts free on, the channel its cmdtype names.
C6_Interleaving ==
    /\ IsPrefix(posted, Tags(DataHeaders(sent)))
    /\ Len(Tags(DataHeaders(sent))) <= Len(posted) + 1
    /\ Kinds(published) = Tags(DataHeaders(sent))
    /\ IsSubseq(Contents(delivered), published)
    /\ c_errors = 0 => IsPrefix(Contents(delivered), published)
    /\ (c_errors = 0 /\ c_pc = "eof") => Contents(delivered) = published
    /\ c_pc = "check" => c_held = frame_header.cmdtype
    /\ \A i \in 1..Len(delivered) :
          delivered[i].stream_index =
              (IF delivered[i].kind = Video THEN 0 ELSE Cardinality(streams) - 1)
    /\ \A c \in Ch :
          /\ FreePosts(c) <= nTaken[c]
          /\ ReadyPosts(c) = full_sem[c] + ConsumerHeld(c) + FreePosts(c)

\* the order V, A, V, V, A of the example, delivered to the end
C6_Witness ==
    /\ c_pc = "eof"
    /\ Kinds(delivered) = <<Video, Audio, Video, Video, Audio>>
    /\ posted = Kinds(delivered)

(* ------------------------------------------------------------------ *)
(* C7                                                                  *)
(* ------------------------------------------------------------------ *)
\* C7: a shm_read_packet call that finds an EOS FrameHeader next on the pipe returns
\* AVERROR_EOF with every semaphore, the packets delivered and the bytes read from
\* shared memory unchanged; after it the consumer makes no further step.
C7_EndOfStream ==
    [][ /\ (c_pc = "idle" /\ pipe # <<>> /\ Head(pipe).cmdtype = EOS /\ pipe' # pipe) =>
              /\ c_pc' = "eof"
              /\ c_ret' = -541478725
              /\ UNCHANGED <<empty_sem, full_sem, delivered, last_read, freed, c_held>>
        /\ c_pc = "eof" =>
              UNCHANGED <<c_pc, c_ret, pipe, empty_sem, full_sem, delivered, last_read>>
      ]_vars

\* EOS has been read while a ready token was still in a semaphore
C7_Witness ==
    /\ c_pc = "eof"
    /\ c_ret = -541478725
    /\ \E c \in streams : full_sem[c] > 0 /\ empty_sem[c] < NUM_BUFFERS
    /\ delivered # <<>>

(* ------------------------------------------------------------------ *)
(* C8                                                                  *)
(* ------------------------------------------------------------------ *)
\* offset + size > length, in arithmetic one limb wider than the fields: no wrap
Exceeds(fh, c) ==
    GtLimbs(AddLimbs(fh.offset \o <<0>>, U64(fh.size) \o <<0>>, 1, 0),
            U64(shm_buffer_size[c]) \o <<0>>, OffsetLimbs + 1)

\* C8: whatever offset and size a FrameHeader carries, if offset + size exceeds the
\* mapped length of its channel's segment, shm_read_packet returns an error and
\* copies nothing; no call reads a byte outside the mapping.
C8_BoundsRejection ==
    [][ /\ ~oob'
        /\ (c_pc = "check" /\ Exceeds(frame_header, frame_header.cmdtype)
                /\ c_pc' # "check") =>
              /\ c_pc' = "idle"
              /\ c_ret' < 0
              /\ delivered' = delivered
              /\ last_read' = last_read
      ]_vars

\* the same without the descriptors whose offset + size wraps: those are rejected
C8_RejectedUnlessWrapped ==
    [][ (c_pc = "check" /\ OutOfBounds(frame_header, frame_header.cmdtype)
            /\ c_pc' # "check") =>
              /\ c_pc' = "idle"
              /\ c_ret' = -22
              /\ delivered' = delivered
              /\ last_read' = last_read
              /\ oob' = oob
      ]_vars

\* a descriptor past the check although its offset + size exceeds the length
C8_Wrapped ==
    /\ oob
    /\ c_errors = 0
    /\ delivered # <<>>

(* ------------------------------------------------------------------ *)
(* C9                                                                  *)
(* ------------------------------------------------------------------ *)
RECURSIVE Flatten(_)
Flatten(seq) == IF seq = <<>> THEN <<>> ELSE Head(seq).data \o Flatten(Tail(seq))

\* the bytes of the example's units in input order
RepackInput == Flatten(RepackUnits)

\* the payloads of the audio frames published, end to end
RepackOutput == Flatten(OfKind(published, Audio))

C9_Published ==
    p_pc = "done" =>
        /\ Len(published) = 2
        /\ \A i \in 1..Len(published) : published[i].size = frame_buffer_size[Audio]
        /\ SubSeq(RepackOutput, 1, 150) = SubSeq(RepackInput, 1, 150)
        /\ \A j \in 151..Len(RepackOutput) : RepackOutput[j] = 0
        /\ audio_in = SubSeq(RepackInput, 1, 150)

AudioHeaders == SelectSeq(DataHeaders(sent), LAMBDA r : r.cmdtype = Audio)

\* C10: every audio FrameHeader the producer writes has size samples_per_buffer x
\* channels x bytes per sample (1 here), and the k-th of them, counted from 0, has
\* pts = k x samples_per_buffer, whatever the sizes and pts of the input units.
C10_AudioCadence ==
    \A k \in 1..Len(AudioHeaders) :
        /\ AudioHeaders[k].size = samples_per_buffer * nb_channels * 1
        /\ AudioHeaders[k].pts = (k - 1) * samples_per_buffer

\* three audio frames written after units of both sizes, one of which was dropped
\* or cut across frames
C10_Witness ==
    /\ Len(AudioHeaders) >= NUM_BUFFERS
    /\ Len(audio_in) # Len(AudioHeaders) * frame_buffer_size[Audio]
    /\ nUnits >= 2


(* ------------------------------------------------------------------ *)
(* C11                                                                 *)
(* ------------------------------------------------------------------ *)
\* a is the end of b
IsSuffix(a, b) == Len(a) <= Len(b) /\ SubSeq(b, Len(b) - Len(a) + 1, Len(b)) = a

\* this step is a call of shm_write_packet with an audio unit that does not fit
OverflowingCall ==
    /\ p_pc = "idle"
    /\ nUnits' = nUnits + 1
    /\ last_unit'.kind = Audio
    /\ internal_buffer_occupancy_audio + last_unit'.size > internal_buffer_size_audio

\* C11: an audio unit whose size plus the occupancy exceeds the capacity (twice the
\* frame size) is dropped: the call returns 0 and leaves the occupancy, the buffered
\* bytes, the pts counter, the write index, both semaphores and the pipe as they
\* were; the occupancy never exceeds the capacity.
C11_OverflowPolicy ==
    /\ [](/\ internal_buffer_occupancy_audio <= internal_buffer_size_audio
          /\ (Audio \in streams /\ p_pc # "header") =>
                 internal_buffer_size_audio = 2 * frame_buffer_size[Audio])
    /\ [][OverflowingCall =>
             /\ p_ret' = 0
             /\ p_pc' = "idle"
             /\ UNCHANGED <<internal_buffer_occupancy_audio, internal_buffer_audio,
                            pts_counter_audio, write_index, empty_sem, full_sem,
                            pipe, audio_in, sent, published>>]_vars

\* an audio unit has just been dropped: its bytes never entered the buffer
C11_Witness ==
    /\ p_pc = "idle"
    /\ p_ret = 0
    /\ last_unit.kind = Audio
    /\ Overflows(last_unit.size)
    /\ ~IsSuffix(last_unit.data, audio_in)
    /\ internal_buffer_occupancy_audio > 0


(* ------------------------------------------------------------------ *)
(* C12                                                                 *)
(* ------------------------------------------------------------------ *)
\* C12: a video unit larger than the video slot is dropped and the producer goes
\* on: no such unit is published or copied, and the producer never writes a byte
\* past the end of the slot it acquired.
C12_OversizeDropped ==
    /\ ~p_oob
    /\ \A i \in 1..Len(published) :
           published[i].kind = Video => published[i].size <= frame_buffer_size[Video]

\* what the code does: the unit handed over is copied whole, whatever its size, so
\* the bytes the segment holds from the acquired slot on are the unit's
C12_CopiedWhole ==
    p_pc = "v_desc" =>
        \A j \in 1..pkt_in.size :
            WriteBuffer + j - 1 < shm_size[Video] =>
                shm[Video][WriteBuffer + j - 1] = pkt_in.data[j]

\* the first byte of the second slot holds the last byte of the unit written to
\* the first slot, and the descriptor of that unit has been written
C12_Spilled ==
    /\ p_oob
    /\ Len(published) = 1
    /\ published[1].size = frame_buffer_size[Video] + 1
    /\ shm[Video][SlotOffset(1, frame_buffer_size[Video])] =
           published[1].data[published[1].size]


(* ------------------------------------------------------------------ *)
(* C13                                                                 *)
(* ------------------------------------------------------------------ *)
\* what shm_read_packet finds on the pipe is no whole FrameHeader of kind 0, 1 or 2
ProtocolError ==
    \/ pipe = <<>> /\ WriterGone
    \/ pipe # <<>> /\ Head(pipe).cmdtype \notin Ch \cup {EOS}

\* this step is shm_read_packet reading the pipe
ReadsPipe ==
    /\ c_pc = "idle"
    /\ \/ pipe # <<>> /\ pipe' = Tail(pipe)
       \/ pipe = <<>> /\ c_pc' = "eof"

\* C13: a short read of the pipe, or a FrameHeader whose kind is none of 0, 1, 2,
\* makes shm_read_packet return end-of-stream: no packet is delivered and no
\* semaphore is waited on or posted.
C13_ProtocolErrorIsEOS ==
    [][(ReadsPipe /\ ProtocolError) =>
           /\ c_ret' = -541478725
           /\ c_pc' = "eof"
           /\ UNCHANGED <<delivered, empty_sem, full_sem>>]_vars

\* what the code does with a short read: end-of-stream, as the claim says
C13_ShortIsEOS ==
    [][(ReadsPipe /\ pipe = <<>>) =>
           /\ c_ret' = -541478725
           /\ UNCHANGED <<delivered, empty_sem, full_sem>>]_vars

\* a FrameHeader of kind 3 was answered with 0 and an empty packet, and the
\* demuxer is ready to read on
C13_Garbled ==
    /\ c_pc = "idle"
    /\ c_ret = 0
    /\ delivered # <<>>
    /\ delivered[Len(delivered)].kind = EOS + 1
    /\ delivered[Len(delivered)].size = 0


(* ------------------------------------------------------------------ *)
(* C14                                                                 *)
(* ------------------------------------------------------------------ *)
\* C14: the wait for "ready" in shm_read_packet is bounded also when the muxer
\* has died between writing a FrameHeader and posting: a demuxer that waits
\* eventually leaves the wait and shm_read_packet returns.
C14_WaitBounded == (c_pc = "wait") ~> (c_pc # "wait")

\* what the code does: once the muxer is gone, a demuxer blocked on a semaphore
\* that holds no token is only ever released by a signal
C14_OnlyASignal ==
    [][(c_pc = "wait" /\ p_pc = "crashed" /\ full_sem[Video] = 0 /\ c_pc' # "wait") =>
           c_ret' = -1 /\ c_errors' = c_errors + 1]_vars

\* the muxer died after writing a FrameHeader and before sem_post; the demuxer has
\* read that FrameHeader and sits in sem_wait on a semaphore nobody will post
C14_Stuck ==
    /\ p_pc = "crashed"
    /\ Len(sent) = Len(posted) + 2
    /\ c_pc = "wait"
    /\ pipe = <<>>
    /\ full_sem[Video] = 0


(* ------------------------------------------------------------------ *)
(* C15                                                                 *)
(* ------------------------------------------------------------------ *)
\* C15: once shm_write_trailer has returned, the muxer holds no mapping, descriptor
\* or semaphore handle, and no segment name or semaphore name of the session
\* exists any more.
C15_TrailerUnlinks ==
    p_pc = "done" => p_res = {} /\ names \cap SessionNames(streams) = {}

\* what the code does: everything is unmapped and closed, every name stays
C15_ClosedNotUnlinked ==
    p_pc = "done" => p_res = {} /\ names = SessionNames(streams)

\* the trailer has returned after a session with frames in both channels, and the
\* six names of the session are all still there
C15_NamesLeft ==
    /\ p_pc = "done"
    /\ sent[Len(sent)] = EOSHeader
    /\ streams = {Video, Audio}
    /\ Published(Video) > 0
    /\ Published(Audio) > 0
    /\ Cardinality(names) = 6

(* ------------------------------------------------------------------ *)
(* C16                                                                 *)
(* ------------------------------------------------------------------ *)
\* C16: a setup in which a step failed has returned an error and holds nothing:
\* after a failed shm_write_header the muxer holds no handle and no name it created
\* exists; after a failed shm_read_header the demuxer holds no handle; and a setup
\* that returned success holds every handle of its channels.
C16_SetupUnwinds ==
    /\ p_pc = "failed" => p_res = {} /\ names = {}
    /\ c_pc = "failed" => c_res = {}
    /\ p_pc \in {"idle", "v_wait", "a_wait"} => ProducerAcquired(streams) \subseteq p_res

\* what the code does on the channel that failed: nothing of it is left but the
\* two semaphore handles of the demuxer and the muxer's buffer
C16_FailingChannelClosed ==
    /\ p_pc = "failed" =>
           \A c \in streams :
               (ChannelHandles(c) \cap p_res = {}) \/ (ChannelHandles(c) \subseteq p_res)
    /\ c_pc = "failed" =>
           \A h \in c_res : h[2] \in {"empty", "full"} \/ ChannelHandles(h[1]) \subseteq c_res

\* the audio setup of the muxer failed after the video setup: the video
\* descriptor, mapping, semaphores and names are all still held
C16_VideoLeaked ==
    /\ p_pc = "failed"
    /\ ChannelHandles(Video) \subseteq p_res
    /\ ChannelNames(Video) \subseteq names

(* ------------------------------------------------------------------ *)
(* C17                                                                 *)
(* ------------------------------------------------------------------ *)
\* this step is one of the demuxer
ConsumerStep == <<demuxVars, cLogVars>>' # <<demuxVars, cLogVars>>

\* C17: no step of the demuxer changes the set of existing names: shm_read_header
\* succeeds only when every name of its channels exists, and neither it nor
\* shm_read_packet nor shm_read_close creates or unlinks one.
C17_ConsumerKeepsNames ==
    [][ConsumerStep =>
          /\ names' = names
          /\ (c_pc = "header" /\ c_pc' = "idle") =>
                 SessionNames(HeaderStreams(Head(pipe))) \subseteq names]_vars

\* the demuxer has set up both channels, read a packet and closed; the names are
\* those the muxer created
C17_Witness ==
    /\ c_pc = "closed"
    /\ c_streams = {Video, Audio}
    /\ delivered # <<>>
    /\ c_res = {}
    /\ names = SessionNames({Video, Audio})


(* ------------------------------------------------------------------ *)
(* C18                                                                 *)
(* ------------------------------------------------------------------ *)
\* the "ready" tokens the demuxer has taken from channel c: those posted less
\* those still in the semaphore
TokensTaken(c) == ReadyPosts(c) - full_sem[c]

\* the FrameHeaders of channel c for which the demuxer should hold or have held a
\* token: all it has read, less the one it is still waiting for
TokensDue(c) ==
    IF c_pc = "wait" /\ RouteOf(frame_header) = c THEN nTaken[c] - 1 ELSE nTaken[c]

\* C18: the demuxer has taken one "ready" token of the matching channel for every
\* data FrameHeader it has read, no more and no fewer, so that the token it takes
\* for a FrameHeader is the one the muxer posted for that frame; also after calls
\* whose wait failed.
C18_Pairing == \A c \in Ch : TokensTaken(c) = TokensDue(c)

\* what the code does: the pairing holds as long as no call has failed
C18_PairedWhileNoError == c_errors = 0 => C18_Pairing

\* a wait was interrupted: the FrameHeader read for it is gone, its token is still
\* in the semaphore, and the demuxer is ready for the next call
C18_Skewed ==
    /\ c_pc = "idle"
    /\ c_ret = -1
    /\ \E c \in Ch : nTaken[c] = TokensTaken(c) + 1


(* ------------------------------------------------------------------ *)
(* C19                                                                 *)
(* ------------------------------------------------------------------ *)
\* the audio frames published since shm_write_trailer was entered with residual
\* bytes in the buffer: all frames, less those the bytes taken in before account for
TrailerFrames ==
    Published(Audio) - ((Len(audio_in) - residual) \div frame_buffer_size[Audio])

\* the residual bytes followed by zeros up to one frame
PaddedResidual ==
    [j \in 1..frame_buffer_size[Audio] |->
        IF j <= residual THEN audio_in[Len(audio_in) - residual + j] ELSE 0]

LastAudio == OfKind(published, Audio)[Published(Audio)]

\* C19: when shm_write_trailer has returned and the buffer held a residual r with
\* 0 < r < frame size on entry, exactly one more audio frame was published, the r
\* bytes followed by frame size - r zeros, and its FrameHeader is directly before
\* the EOS header; with a residual of 0 no frame was published; the EOS header is
\* the last record on the pipe.
C19_TrailerResidual ==
    p_pc = "done" =>
        /\ sent[Len(sent)] = EOSHeader
        /\ (Audio \in streams /\ residual > 0 /\ residual < frame_buffer_size[Audio]) =>
               /\ TrailerFrames = 1
               /\ LastAudio.data = PaddedResidual
               /\ sent[Len(sent) - 1].cmdtype = Audio
        /\ (Audio \in streams /\ residual = 0) => TrailerFrames = 0

\* what the code does: the same, as long as no wait of the muxer was interrupted
C19_UnlessInterrupted == p_errors = 0 => C19_TrailerResidual

\* the trailer has returned with the EOS header written; the buffer held a
\* residual below one frame on entry and no frame was published for it
C19_ResidualLost ==
    /\ p_pc = "done"
    /\ Audio \in streams
    /\ residual > 0
    /\ residual < frame_buffer_size[Audio]
    /\ TrailerFrames = 0
    /\ sent[Len(sent)] = EOSHeader


(* ------------------------------------------------------------------ *)
(* C20                                                                 *)
(* ------------------------------------------------------------------ *)
\* this step is shm_write_header returning 0
HeaderReturns == p_pc = "header" /\ p_pc' = "idle"

\* C20: when shm_write_header returns success, in the first session and in every
\* later one, the free semaphore of each channel has value NUM_BUFFERS and the
\* ready semaphore value 0, whether or not the names existed before.
C20_FreshSemaphores ==
    [][HeaderReturns =>
           \A c \in streams : empty_sem'[c] = NUM_BUFFERS /\ full_sem'[c] = 0]_vars

\* what the code does: a semaphore whose name exists keeps the value it has
C20_StaleKept ==
    [][HeaderReturns =>
           \A c \in streams :
               /\ empty_sem'[c] = IF SemName(c, "empty") \in names THEN empty_sem[c]
                                  ELSE NUM_BUFFERS
               /\ full_sem'[c] = IF SemName(c, "full") \in names THEN full_sem[c]
                                 ELSE 0]_vars

\* the second session has been set up and nothing written yet; the semaphores
\* hold what the first session left: one ready token nobody took, two free slots
C20_Stale ==
    /\ session = 2
    /\ p_pc = "idle"
    /\ nUnits = 0
    /\ posted = <<>>
    /\ full_sem[Video] = 1
    /\ empty_sem[Video] = NUM_BUFFERS - 1
    /\ ChannelNames(Video) \subseteq names


(* ------------------------------------------------------------------ *)
(* C21                                                                 *)
(* ------------------------------------------------------------------ *)
IsSHMHeader(r) == "rec" \in DOMAIN r

\* this step is the muxer writing the SHMHeader to the pipe
WritesSHMHeader == sent = <<>> /\ sent' # <<>>

\* this step is shm_read_header finding less than an SHMHeader on the pipe
ShortHeaderRead == c_pc = "header" /\ pipe = <<>> /\ c_pc' # "header"

\* C21: the SHMHeader is the first record the muxer writes and no later record is
\* one; when it is written every segment and semaphore it names exists; the
\* demuxer holds no handle before it has read the SHMHeader, and a short read of
\* the SHMHeader makes shm_read_header fail with nothing opened.
C21_DescriptorFirst ==
    /\ [](/\ \A i \in 1..Len(sent) : IsSHMHeader(sent[i]) <=> i = 1
          /\ c_pc = "header" => c_res = {})
    /\ [][/\ WritesSHMHeader => SessionNames(HeaderStreams(sent'[1])) \subseteq names'
          /\ ShortHeaderRead => c_pc' = "failed" /\ c_ret' < 0 /\ c_res' = {}]_vars

\* what the code does: the same, but a semaphore whose sem_open failed is named
\* in the SHMHeader all the same; the segments always exist
C21_SegmentsExist ==
    /\ [](/\ \A i \in 1..Len(sent) : IsSHMHeader(sent[i]) <=> i = 1
          /\ c_pc = "header" => c_res = {})
    /\ [][/\ WritesSHMHeader =>
                 /\ {ShmName(c) : c \in HeaderStreams(sent'[1])} \subseteq names'
                 /\ SemHandles(streams) \subseteq p_res' =>
                        SessionNames(HeaderStreams(sent'[1])) \subseteq names'
          /\ ShortHeaderRead => c_pc' = "failed" /\ c_ret' < 0 /\ c_res' = {}]_vars

\* the SHMHeader is on the pipe, the muxer goes on, and a semaphore the header
\* names was never created
C21_NamedNotCreated ==
    /\ Len(sent) = 1
    /\ IsSHMHeader(sent[1])
    /\ p_pc = "idle"
    /\ p_ret = 0
    /\ ~(SessionNames(HeaderStreams(sent[1])) \subseteq names)


(* ------------------------------------------------------------------ *)
(* C22                                                                 *)
(* ------------------------------------------------------------------ *)
\* C22: in a session without failures, under fair scheduling of both processes,
\* every wait of the muxer on "free" and every wait of the demuxer on "ready"
\* returns, every published frame is delivered, and the demuxer reads EOS.
C22_Liveness ==
    /\ (p_pc \in {"v_wait", "a_wait"}) ~> (p_pc \in {"v_copy", "a_copy"})
    /\ (c_pc = "wait") ~> (c_pc = "check")
    /\ <>[](/\ p_pc = "done"
            /\ c_pc = "eof"
            /\ pipe = <<>>
            /\ Contents(delivered) = published)

\* the muxer is blocked in sem_wait: three video frames are published and none
\* of them has been released yet
C22_Witness ==
    /\ p_pc = "v_wait"
    /\ empty_sem[Video] = 0
    /\ Published(Video) = NUM_BUFFERS
    /\ FreePosts(Video) = 0


(* ------------------------------------------------------------------ *)
(* C23                                                                 *)
(* ------------------------------------------------------------------ *)
\* shm_write_packet has returned from a call with an audio unit
AudioCallReturned == p_pc = "idle" /\ p_ctx = "packet" /\ last_unit.kind = Audio

\* C23: after every return of shm_write_packet for an audio unit, also a return
\* with the error of a failed wait, 0 <= occupancy < frame size; so the trailer's
\* padding length is positive and the padded residual fits the buffer: the
\* trailer never runs memset with a negative length.
C23_OccupancyBelowFrame ==
    /\ AudioCallReturned =>
           /\ internal_buffer_occupancy_audio >= 0
           /\ internal_buffer_occupancy_audio < frame_buffer_size[Audio]
    /\ p_pc # "crashed"

\* what the code does: the bound holds, and the trailer pads, as long as no wait
\* of the muxer has failed
C23_BelowFrameWhileNoError == p_errors = 0 => C23_OccupancyBelowFrame

\* shm_write_packet has returned the error of an interrupted wait and the buffer
\* holds more than a frame: the trailer's padding length will be negative
C23_Overfull ==
    /\ AudioCallReturned
    /\ p_ret = -1
    /\ internal_buffer_occupancy_audio > frame_buffer_size[Audio]


(* ------------------------------------------------------------------ *)
(* C24                                                                 *)
(* ------------------------------------------------------------------ *)
\* C24: in a session with one stream only, shm_write_trailer and shm_read_close
\* unmap, close and sem_close only what was opened for the channel carried: no
\* call is made on a zeroed descriptor, mapping or semaphore handle of the
\* channel that is absent.
C24_TeardownOnlyAcquired == Cardinality(streams) = 1 => stray = {}

\* what the code does: no mapping of an absent channel is unmapped and the muxer
\* closes no descriptor of one; the demuxer closes descriptor 0, and where
\* SEM_FAILED is not the null pointer both sides call sem_close on null handles;
\* a session with both channels has no such call
C24_WhatIsTouched ==
    /\ \A t \in stray :
           \/ t[1] = "demuxer" /\ t[3] = "fd"
           \/ t[3] \in {"empty", "full"} /\ t[4] = "SEM_FAILED # NULL"
    /\ \A t \in stray : t[2] \notin streams
    /\ (c_pc = "closed" /\ Cardinality(streams) = 1) =>
           \A b \in Builds : \E t \in stray : t[1] = "demuxer" /\ t[3] = "fd" /\ t[4] = b
    /\ streams = Ch => stray = {}

\* a video-only session has ended and the demuxer has closed: it has called
\* close() on the zero in shm_fd_audio, the process's descriptor 0
C24_DescriptorZeroClosed ==
    /\ streams = {Video}
    /\ c_streams = {Video}
    /\ c_pc = "closed"
    /\ p_pc = "done"
    /\ <<"demuxer", Audio, "fd", "SEM_FAILED = NULL">> \in stray

====
